---- MODULE Spec2Model ----
(***************************************************************************)
(* Model of the FuX agent plan executor: the "/agent" branch of            *)
(* handleCommand (src/App.tsx, src/unnamed/part_000), the placeholder      *)
(* resolver it contains, its tool dispatch and its try/catch; and of the   *)
(* application around it: getChatHistory, batch ingestion, the chat        *)
(* sessions, the busy flag of handleSendMessage and the Twitch stream      *)
(* start over vMix.                                                        *)
(*                                                                         *)
(* Strings that the program scans (step arguments, tool outputs) are       *)
(* sequences of one-character strings, so that the placeholder regular     *)
(* expression is modelled by what it matches.  Tool names and fixed        *)
(* message templates are compared only for equality and are TLA+ strings.  *)
(***************************************************************************)
EXTENDS Integers, Sequences, FiniteSets, TLC

VARIABLES
    pc,            \* position of the /agent handler: idle, planning, awaiting, done
    goal,          \* args.join(' ') of the /agent command
    plugins,       \* the ingested plugins (React state captured by the handler)
    plan,          \* the AgentStep[] returned by createExecutionPlan
    index,         \* zero-based cursor of the for..of loop over plan.entries()
    stepOutputs,   \* the per-run accumulator: function from step index to output
    inflight,      \* indices of steps whose tool call has been issued and not settled
    messages,      \* the chat transcript (addMessage appends)
    calls,         \* history: tool calls issued, in order
    returns,       \* history: values the tool calls returned, in order
    trace,         \* history: progress / resolve / dispatch / complete events
    resolutions,   \* history: every evaluation of step.args.replace(...)
    raised,        \* history: errors that reached the catch block
    planRequests,  \* history: number of createExecutionPlan calls
    response,      \* history: what the model call settled with
    voice,         \* a second /agent invocation, started by a voice turn: its
                   \* own pc, goal, plan, index, stepOutputs and histories
    contents,      \* what getChatHistory returned for the transcript
    mounted,       \* whether the mount effect that loads the sessions has run
    sessions,      \* the ChatSession[] state
    activeSessionId, \* the id of the active session, or null
    clock,         \* the value Date.now() returns
    lastSessionOp, \* history: the last session operation and the state it found
    isReplying,    \* the busy flag
    currentTask,   \* the task line shown while busy, or null
    error,         \* the error banner, or null
    sends,         \* the handleSendMessage invocations, in the order they started
    batch,         \* the locals of a handleIngestUrls invocation
    connection,    \* vmixService.connection
    streamKey,     \* localStorage['twitch_stream_key']
    stream,        \* the locals of a twitchService.startStream invocation
    vmixLog        \* history: the requests sent to vMix and how they settled

agentVars == <<pc, goal, plan, index, stepOutputs, inflight, calls, returns, trace,
               resolutions, raised, planRequests, response, voice>>

historyVars == <<contents>>

sessionVars == <<mounted, sessions, activeSessionId, clock, lastSessionOp>>

replyVars == <<isReplying, currentTask, error, sends>>

batchVars == <<batch>>

streamVars == <<connection, streamKey, stream, vmixLog>>

\* the state of the application that an /agent run does not touch
shell == <<historyVars, sessionVars, replyVars, batchVars, streamVars>>

vars == <<pc, goal, plugins, plan, index, stepOutputs, inflight, messages,
          calls, returns, trace, resolutions, raised, planRequests, response, voice,
          contents, mounted, sessions, activeSessionId, clock, lastSessionOp, isReplying,
          currentTask, error, sends, batch, connection, streamKey, stream, vmixLog>>

(***************************************************************************)
(* Bounds                                                                  *)
(***************************************************************************)
MaxPlanLen == 2

\* longest transcript handed to getChatHistory
MaxHistory == 3

\* most repository URLs in one batch
MaxUrls == 2

\* most sessions in the list, and the latest time on the clock
MaxSessions == 3

MaxClock == 5

\* most handleSendMessage invocations
MaxSends == 3

\* most twitchService.startStream invocations
MaxStarts == 2

(***************************************************************************)
(* JavaScript values held by the accumulator                               *)
(***************************************************************************)
Null == [t |-> "null", v |-> <<>>]

Undefined == [t |-> "undefined", v |-> <<>>]

Str(s) == [t |-> "string", v |-> s]

\* String(x) for the values the accumulator can hold
String(x) ==
    CASE x.t = "string" -> x.v
      [] x.t = "null" -> <<"n", "u", "l", "l">>
      [] OTHER -> <<"u", "n", "d", "e", "f", "i", "n", "e", "d">>

\* stepOutputs[k] on a plain object: a missing key reads as undefined
Lookup(outs, k) == IF k \in DOMAIN outs THEN outs[k] ELSE Undefined

(***************************************************************************)
(* The placeholder regular expression /\{\{step_(\d+)_output\}\}/g         *)
(***************************************************************************)
PlaceholderPrefix == <<"{", "{", "s", "t", "e", "p", "_">>

PlaceholderSuffix == <<"_", "o", "u", "t", "p", "u", "t", "}", "}">>

DigitChars == {"0", "1", "2", "3", "4", "5", "6", "7", "8", "9"}

DigitValue(c) ==
    CASE c = "0" -> 0 [] c = "1" -> 1 [] c = "2" -> 2 [] c = "3" -> 3
      [] c = "4" -> 4 [] c = "5" -> 5 [] c = "6" -> 6 [] c = "7" -> 7
      [] c = "8" -> 8 [] OTHER -> 9

\* w occurs in s starting at position p
OccursAt(s, p, w) ==
    /\ p >= 1
    /\ p + Len(w) - 1 <= Len(s)
    /\ SubSeq(s, p, p + Len(w) - 1) = w

RECURSIVE DigitRun(_, _)
\* length of the longest run of digits of s that starts at p (greedy \d+)
DigitRun(s, p) ==
    IF p <= Len(s) /\ s[p] \in DigitChars THEN 1 + DigitRun(s, p + 1) ELSE 0

\* variant of MatchAt: the digit group may be empty (\d* for \d+)
MatchAtAnyDigits(s, p) ==
    LET n == IF OccursAt(s, p, PlaceholderPrefix)
             THEN DigitRun(s, p + Len(PlaceholderPrefix)) ELSE 0
        q == p + Len(PlaceholderPrefix) + n
        ok == OccursAt(s, p, PlaceholderPrefix) /\ OccursAt(s, q, PlaceholderSuffix)
        last == q + Len(PlaceholderSuffix) - 1
    IN  [ok |-> ok,
         match |-> IF ok THEN SubSeq(s, p, last) ELSE <<>>,
         digits |-> IF ok THEN SubSeq(s, p + Len(PlaceholderPrefix), q - 1) ELSE <<>>]

\* the regular expression tried at position p: whether it matches, the
\* matched text and the captured digit group
MatchAt(s, p) ==
    LET n == IF OccursAt(s, p, PlaceholderPrefix)
             THEN DigitRun(s, p + Len(PlaceholderPrefix)) ELSE 0
        q == p + Len(PlaceholderPrefix) + n
        ok == n >= 1 /\ OccursAt(s, q, PlaceholderSuffix)
        last == q + Len(PlaceholderSuffix) - 1
    IN  [ok |-> ok,
         match |-> IF ok THEN SubSeq(s, p, last) ELSE <<>>,
         digits |-> IF ok THEN SubSeq(s, p + Len(PlaceholderPrefix), q - 1) ELSE <<>>]

RECURSIVE ParseInt(_)
\* parseInt(digits, 10) on a non-empty string of decimal digits
ParseInt(d) ==
    IF d = <<>> THEN 0
    ELSE 10 * ParseInt(SubSeq(d, 1, Len(d) - 1)) + DigitValue(d[Len(d)])

(***************************************************************************)
(* Errors and transcript messages                                          *)
(***************************************************************************)
Error(kind, tool, placeholder, step, detail) ==
    [kind |-> kind, tool |-> tool, placeholder |-> placeholder,
     step |-> step, detail |-> detail]

NoError == Error("none", "", <<>>, 0, "")

\* `Could not resolve placeholder ${match}. Output from step ${stepIndex + 1}
\*  not found or was null.`
PlaceholderError(match, stepIndex) ==
    Error("Could not resolve placeholder", "", match, stepIndex + 1,
          "not found or was null")

\* `Unknown tool specified by agent: ${step.tool}`
UnknownToolError(tool) ==
    Error("Unknown tool specified by agent", tool, <<>>, 0, "")

\* "The AI core failed to generate a valid execution plan."
PlanError ==
    Error("The AI core failed to generate a valid execution plan.", "", <<>>, 0, "")

Message(role, kind, tool, n, of, text, err, agentPlan) ==
    [role |-> role, kind |-> kind, tool |-> tool, n |-> n, of |-> of,
     text |-> text, err |-> err, agentPlan |-> agentPlan]

(***************************************************************************)
(* Placeholder resolution: step.args.replace(placeholderRegex, callback)   *)
(***************************************************************************)
\* variant of ReplaceCallback: the step number is used as the index as it is
ReplaceCallbackOneBased(match, stepIndexStr, outs) ==
    LET stepIndex == ParseInt(stepIndexStr)
        out == Lookup(outs, stepIndex)
    IN  IF out # Undefined /\ out # Null
        THEN [ok |-> TRUE, str |-> String(out), err |-> NoError]
        ELSE [ok |-> FALSE, str |-> <<>>, err |-> PlaceholderError(match, stepIndex)]

\* variant of ReplaceCallback: an unresolvable placeholder is left in the text
ReplaceCallbackSkips(match, stepIndexStr, outs) ==
    LET stepIndex == ParseInt(stepIndexStr) - 1
        out == Lookup(outs, stepIndex)
    IN  IF out # Undefined /\ out # Null
        THEN [ok |-> TRUE, str |-> String(out), err |-> NoError]
        ELSE [ok |-> TRUE, str |-> match, err |-> NoError]

\* variant of ReplaceCallback: only a missing entry is unresolvable, null is not
ReplaceCallbackAcceptsNull(match, stepIndexStr, outs) ==
    LET stepIndex == ParseInt(stepIndexStr) - 1
        out == Lookup(outs, stepIndex)
    IN  IF out # Undefined
        THEN [ok |-> TRUE, str |-> String(out), err |-> NoError]
        ELSE [ok |-> FALSE, str |-> <<>>, err |-> PlaceholderError(match, stepIndex)]

\* the replace callback for one match: the replacement text, or the error
\* it throws
ReplaceCallback(match, stepIndexStr, outs) ==
    LET stepIndex == ParseInt(stepIndexStr) - 1
        out == Lookup(outs, stepIndex)
    IN  IF out # Undefined /\ out # Null
        THEN [ok |-> TRUE, str |-> String(out), err |-> NoError]
        ELSE [ok |-> FALSE, str |-> <<>>, err |-> PlaceholderError(match, stepIndex)]

RECURSIVE ReplaceFrom(_, _, _, _)
\* String.prototype.replace with a global regular expression and a function:
\* one left-to-right pass from position p, acc is the text produced so far;
\* a throwing callback abandons the whole call
ReplaceFrom(s, p, outs, acc) ==
    IF p > Len(s) THEN [ok |-> TRUE, str |-> acc, err |-> NoError]
    ELSE LET m == MatchAt(s, p)
         IN  IF m.ok
             THEN LET r == ReplaceCallback(m.match, m.digits, outs)
                  IN  IF r.ok
                      THEN ReplaceFrom(s, p + Len(m.match), outs, acc \o r.str)
                      ELSE [ok |-> FALSE, str |-> <<>>, err |-> r.err]
             ELSE ReplaceFrom(s, p + 1, outs, Append(acc, s[p]))

\* variant of Resolve: the text produced is scanned for placeholders again
ResolveRescans(args, outs) ==
    LET first == ReplaceFrom(args, 1, outs, <<>>)
    IN  IF first.ok THEN ReplaceFrom(first.str, 1, outs, <<>>) ELSE first

\* const resolvedArgs = step.args.replace(placeholderRegex, ...)
Resolve(args, outs) == ReplaceFrom(args, 1, outs, <<>>)

RECURSIVE ReadsFrom(_, _, _)
\* the accumulator keys the callback reads during that replace, in order:
\* one read of stepOutputs[stepIndex] per match, up to a throwing callback
ReadsFrom(s, p, outs) ==
    IF p > Len(s) THEN <<>>
    ELSE LET m == MatchAt(s, p)
         IN  IF m.ok
             THEN <<ParseInt(m.digits) - 1>> \o
                  (IF ReplaceCallback(m.match, m.digits, outs).ok
                   THEN ReadsFrom(s, p + Len(m.match), outs)
                   ELSE <<>>)
             ELSE ReadsFrom(s, p + 1, outs)

(***************************************************************************)
(* Dispatch: the switch over step.tool and the plugin fallback             *)
(***************************************************************************)
\* the case labels of the switch whose branch awaits a tool back-end
BackendTools == {"vmix", "blender", "video", "spotify", "twitch", "generateImage", "search"}

BuiltinTools == BackendTools \cup {"finalAnswer"}

RECURSIVE FlatMapTools(_)
\* plugins.flatMap(p => p.tools.map(t => ({ ...t, plugin: p })))
FlatMapTools(ps) ==
    IF ps = <<>> THEN <<>>
    ELSE [i \in 1..Len(ps[1].tools) |-> [name |-> ps[1].tools[i], plugin |-> ps[1].power_name]]
         \o FlatMapTools(Tail(ps))

\* variant of FindCustomTool: the last match is taken instead of the first
FindCustomToolLast(ps, tool) ==
    LET all == FlatMapTools(ps)
        hits == {i \in 1..Len(all) : all[i].name = tool}
    IN  IF hits = {} THEN [found |-> FALSE, plugin |-> ""]
        ELSE [found |-> TRUE,
              plugin |-> all[CHOOSE i \in hits : \A j \in hits : i >= j].plugin]

\* allCustomTools.find(t => t.name === step.tool): the first match, or undefined
FindCustomTool(ps, tool) ==
    LET all == FlatMapTools(ps)
        hits == {i \in 1..Len(all) : all[i].name = tool}
    IN  IF hits = {} THEN [found |-> FALSE, plugin |-> ""]
        ELSE [found |-> TRUE,
              plugin |-> all[CHOOSE i \in hits : \A j \in hits : i <= j].plugin]

\* variant of DispatchKind: the built-in names are matched without regard to case
DispatchKindIgnoresCase(tool, ps) ==
    IF tool = "finalAnswer" THEN "final"
    ELSE IF tool \in BackendTools \cup {"Search"} THEN "builtin"
    ELSE IF FindCustomTool(ps, tool).found THEN "custom"
    ELSE "unknown"

\* variant of DispatchKind: finalAnswer is sent to a back-end like the others
DispatchKindFinalCallsOut(tool, ps) ==
    IF tool \in BackendTools \cup {"finalAnswer"} THEN "builtin"
    ELSE IF FindCustomTool(ps, tool).found THEN "custom"
    ELSE "unknown"

\* which branch of the dispatch a tool name takes
DispatchKind(tool, ps) ==
    IF tool = "finalAnswer" THEN "final"
    ELSE IF tool \in BackendTools THEN "builtin"
    ELSE IF FindCustomTool(ps, tool).found THEN "custom"
    ELSE "unknown"

\* variant of Awaited: the search call is started but not awaited
AwaitedExceptSearch(tool) == tool # "search"

\* every tool call of the switch is awaited before the loop goes on
Awaited(tool) == TRUE

DataUrlPrefix ==
    <<"d", "a", "t", "a", ":", "i", "m", "a", "g", "e", "/", "p", "n", "g",
      ";", "b", "a", "s", "e", "6", "4", ",">>

\* a property read on an object: a missing property reads as undefined
Prop(obj, field) == IF field \in DOMAIN obj THEN Str(obj[field]) ELSE Undefined

\* what autoCutVideo resolves to
VideoResult(text) ==
    [message |-> <<"V">>, outputPath |-> text]

\* variant of StepOutput: the search branch does not assign currentStepOutput
StepOutputDropsSearch(tool, text) ==
    CASE tool \in {"vmix", "search"} -> Null
      [] tool = "video" -> Prop(VideoResult(text), "videoUrl")
      [] tool = "generateImage" -> Str(DataUrlPrefix \o text)
      [] OTHER -> Str(text)

\* currentStepOutput after the branch of a tool whose call returned text
StepOutput(tool, text) ==
    CASE tool = "vmix" -> Null
      [] tool = "video" -> Prop(VideoResult(text), "videoUrl")
      [] tool = "generateImage" -> Str(DataUrlPrefix \o text)
      [] OTHER -> Str(text)

\* the error that reaches the catch block when a tool call throws
ToolError(tool, kind, detail) ==
    CASE tool = "vmix" -> Error("Agent vMix command failed", tool, <<>>, 0, detail)
      [] kind = "custom" -> Error("Execution failed for tool", tool, <<>>, 0, detail)
      [] OTHER -> Error("tool back-end error", tool, <<>>, 0, detail)

(***************************************************************************)
(* Transcript entries of the /agent handler                                *)
(***************************************************************************)
UsageMessage == Message("fux", "usage", "", 0, 0, <<>>, NoError, <<>>)

EngagedMessage == Message("system_core", "AGENT MODE: ENGAGED", "", 0, 0, <<>>, NoError, <<>>)

FormulatedMessage(p) ==
    Message("fux", "Execution plan formulated", "", 0, 0, <<>>, NoError, p)

\* variant of ProgressMessage: the step is numbered from zero
ProgressMessageZeroBased(i, n, tool) ==
    Message("system_core", "[STEP] Executing", tool, i, n, <<>>, NoError, <<>>)

\* `[STEP ${index + 1}/${plan.length}] Executing: ${step.tool}`
ProgressMessage(i, n, tool) ==
    Message("system_core", "[STEP] Executing", tool, i + 1, n, <<>>, NoError, <<>>)

ResultMessage(tool, text) ==
    Message(IF tool \in {"generateImage", "search"} THEN "fux" ELSE "system_core",
            "tool result", tool, 0, 0, text, NoError, <<>>)

FinalAnswerMessage(text) == Message("fux", "finalAnswer", "", 0, 0, text, NoError, <<>>)

CompletedMessage ==
    Message("system_core", "AGENT MODE: COMPLETED.", "", 0, 0, <<>>, NoError, <<>>)

FailedMessage(e) ==
    Message("system_core", "AGENT MODE: FAILED. Error:", "", 0, 0, <<>>, e, <<>>)

Event(ev, step) == [ev |-> ev, step |-> step]

(***************************************************************************)
(* Inputs: step arguments, plans, model responses, tool results, plugins   *)
(***************************************************************************)
Placeholder(digits) == PlaceholderPrefix \o digits \o PlaceholderSuffix

\* "q"
ArgPlain == <<"q">>

\* "W: {{step_1_output}}!"
ArgReport == <<"W", ":", " ">> \o Placeholder(<<"1">>) \o <<"!">>

\* "{{step_01_output}}+{{step_1_output}}" : the same step referenced twice
ArgTwice == Placeholder(<<"0", "1">>) \o <<"+">> \o Placeholder(<<"1">>)

\* "{{step__output}}}" : braces and the words of a placeholder, but no digits
ArgNearMiss == PlaceholderPrefix \o PlaceholderSuffix \o <<"}">>

\* "{{step_1_output}}{{step_0_output}}"
ArgZero == Placeholder(<<"1">>) \o Placeholder(<<"0">>)

\* "{{step_2_output}}"
ArgForward == Placeholder(<<"2">>)

\* "<{{step_9_output}}>" : a step beyond every plan
ArgBeyond == <<"<">> \o Placeholder(<<"9">>) \o <<">">>

ArgStrings ==
    {ArgPlain, ArgReport, ArgTwice, ArgNearMiss, ArgZero, ArgForward, ArgBeyond}

\* tool names a plan may carry: built-ins, a plugin tool, and names that are
\* neither ("Search" differs from the built-in only by case)
PlanTools == {"search", "vmix", "video", "finalAnswer", "myTool", "Search"}

\* every tool with every argument string; the video tool, whose argument is
\* not what its step stores, with the plain one
AgentSteps ==
    [thought : {"t"}, tool : PlanTools \ {"video"}, args : ArgStrings]
    \cup [thought : {"t"}, tool : {"video"}, args : {ArgPlain}]

RECURSIVE SeqsUpTo(_, _)
\* the sequences over S of length at most n
SeqsUpTo(S, n) ==
    IF n = 0 THEN {<<>>}
    ELSE LET shorter == SeqsUpTo(S, n - 1)
         IN  shorter \cup {Append(q, x) : q \in {r \in shorter : Len(r) = n - 1}, x \in S}

Plans == SeqsUpTo(AgentSteps, MaxPlanLen)

\* an element of the parsed "plan" array: null, or an object whose thought,
\* tool and args each have a JavaScript type ("undefined" for a missing field)
PlanElement(isNull, thoughtType, toolType, argsType, step) ==
    [isNull |-> isNull, thoughtType |-> thoughtType, toolType |-> toolType,
     argsType |-> argsType, thought |-> step.thought, tool |-> step.tool,
     args |-> step.args]

\* the element JSON.parse yields for a well-formed step
GoodElement(step) == PlanElement(FALSE, "string", "string", "string", step)

SomeStep == [thought |-> "t", tool |-> "search", args |-> ArgPlain]

\* elements that are not well-formed steps
BadElements ==
    {PlanElement(TRUE, "undefined", "undefined", "undefined", SomeStep),
     PlanElement(FALSE, "undefined", "string", "string", SomeStep),
     PlanElement(FALSE, "string", "number", "string", SomeStep),
     PlanElement(FALSE, "string", "string", "object", SomeStep)}

\* what the model call of createExecutionPlan settles with: a rejection, or a
\* response whose text parses or not; parsedType is the type of the parsed
\* value and planType the type of its plan property
Response(status, parses, parsedType, planType, elements) ==
    [status |-> status, parses |-> parses, parsedType |-> parsedType,
     planType |-> planType, plan |-> elements]

NoResponse == Response("none", FALSE, "undefined", "undefined", <<>>)

ModelResponses ==
    {Response("response", TRUE, "object", "array",
              [i \in 1..Len(p) |-> GoodElement(p[i])]) : p \in Plans}
    \cup {Response("response", TRUE, "object", "array", <<b>>) : b \in BadElements}
    \cup {Response("response", TRUE, "object", "array", <<GoodElement(SomeStep), b>>) :
            b \in BadElements}
    \cup {Response("response", TRUE, "object", t, <<>>) :
            t \in {"undefined", "null", "emptyString", "string", "object"}}
    \cup {Response("response", TRUE, t, "undefined", <<>>) : t \in {"null", "number", "array"}}
    \cup {Response("response", FALSE, "undefined", "undefined", <<>>),
          Response("networkError", FALSE, "undefined", "undefined", <<>>)}

\* text a tool back-end can return: empty, plain, and text shaped like a
\* placeholder for a step other than the one that returns it
BackendTexts == {<<>>, <<"r">>, Placeholder(<<"2">>)}

BackendFailures == {"Check connection"}

Goals == {"", "goal"}

PluginA == [power_name |-> "A", tools |-> <<"myTool">>]

PluginB == [power_name |-> "B", tools |-> <<"search", "myTool">>]

PluginLists == {<<>>, <<PluginA, PluginB>>}

(***************************************************************************)
(* createExecutionPlan: validation of the model response                   *)
(***************************************************************************)
\* a thrown error of any kind inside the try block is caught and replaced
Rejected == [ok |-> FALSE, plan |-> <<>>, err |-> PlanError]

\* parsed.plan.every(step => typeof step.thought === 'string' && ...): reading
\* a property of a null element throws, a non-string field yields false
EveryStepValid(elements) ==
    \A i \in 1..Len(elements) :
      /\ ~elements[i].isNull
      /\ elements[i].thoughtType = "string"
      /\ elements[i].toolType = "string"
      /\ elements[i].argsType = "string"

\* variant of createExecutionPlan: the well-formed steps of the array are kept
createExecutionPlanKeepsValid(resp) ==
    IF resp.status = "networkError"
    THEN [ok |-> FALSE, plan |-> <<>>,
          err |-> Error("model call failed", "", <<>>, 0, "network")]
    ELSE IF ~resp.parses \/ resp.parsedType = "null" \/ resp.planType # "array"
    THEN Rejected
    ELSE LET good == SelectSeq(resp.plan, LAMBDA e : EveryStepValid(<<e>>))
         IN  [ok |-> TRUE,
              plan |-> [i \in 1..Len(good) |->
                          [thought |-> good[i].thought, tool |-> good[i].tool,
                           args |-> good[i].args]],
              err |-> NoError]

\* variant of createExecutionPlan: a step naming no built-in tool is rejected
createExecutionPlanChecksTools(resp) ==
    IF resp.status = "networkError"
    THEN [ok |-> FALSE, plan |-> <<>>,
          err |-> Error("model call failed", "", <<>>, 0, "network")]
    ELSE IF ~resp.parses \/ resp.parsedType = "null" \/ resp.planType # "array"
            \/ ~EveryStepValid(resp.plan)
            \/ \E i \in 1..Len(resp.plan) : resp.plan[i].tool \notin BuiltinTools
    THEN Rejected
    ELSE [ok |-> TRUE,
          plan |-> [i \in 1..Len(resp.plan) |->
                      [thought |-> resp.plan[i].thought, tool |-> resp.plan[i].tool,
                       args |-> resp.plan[i].args]],
          err |-> NoError]

\* variant of createExecutionPlan: a plan of no steps is rejected
createExecutionPlanRejectsEmpty(resp) ==
    IF resp.status = "networkError"
    THEN [ok |-> FALSE, plan |-> <<>>,
          err |-> Error("model call failed", "", <<>>, 0, "network")]
    ELSE IF ~resp.parses \/ resp.parsedType = "null" \/ resp.planType # "array"
            \/ ~EveryStepValid(resp.plan) \/ resp.plan = <<>>
    THEN Rejected
    ELSE [ok |-> TRUE,
          plan |-> [i \in 1..Len(resp.plan) |->
                      [thought |-> resp.plan[i].thought, tool |-> resp.plan[i].tool,
                       args |-> resp.plan[i].args]],
          err |-> NoError]

\* variant of createExecutionPlan: a failure yields an empty plan
createExecutionPlanEmptyOnFailure(resp) ==
    IF resp.status = "response" /\ resp.parses /\ resp.parsedType # "null"
       /\ resp.planType = "array" /\ EveryStepValid(resp.plan)
    THEN [ok |-> TRUE,
          plan |-> [i \in 1..Len(resp.plan) |->
                      [thought |-> resp.plan[i].thought, tool |-> resp.plan[i].tool,
                       args |-> resp.plan[i].args]],
          err |-> NoError]
    ELSE [ok |-> TRUE, plan |-> <<>>, err |-> NoError]

\* the model call settles and its response is validated: the plan, or the
\* error thrown
createExecutionPlan(resp) ==
    IF resp.status = "networkError"
    THEN \* the awaited generateContent rejects outside the try block
         [ok |-> FALSE, plan |-> <<>>,
          err |-> Error("model call failed", "", <<>>, 0, "network")]
    ELSE IF ~resp.parses THEN Rejected          \* JSON.parse throws
    ELSE IF resp.parsedType = "null" THEN Rejected   \* parsed.plan throws
    ELSE IF resp.planType \in {"undefined", "null", "emptyString"} THEN Rejected
    ELSE IF resp.planType # "array" THEN Rejected    \* Array.isArray is false
    ELSE IF ~EveryStepValid(resp.plan) THEN Rejected
    ELSE [ok |-> TRUE,
          plan |-> [i \in 1..Len(resp.plan) |->
                      [thought |-> resp.plan[i].thought, tool |-> resp.plan[i].tool,
                       args |-> resp.plan[i].args]],
          err |-> NoError]

(***************************************************************************)
(* The driver loop                                                         *)
(***************************************************************************)
\* the part of the state the loop works on
RunState ==
    [pc |-> pc, index |-> index, stepOutputs |-> stepOutputs, inflight |-> inflight,
     messages |-> messages, calls |-> calls, returns |-> returns, trace |-> trace,
     resolutions |-> resolutions, raised |-> raised]

\* addMessage: setMessages(prev => [...prev, message])
addMessage(st, m) == [st EXCEPT !.messages = Append(@, m)]

\* variant of Catch: the calls already made are reversed, latest first
CatchWithUndo(st, e) ==
    [addMessage(st, FailedMessage(e))
       EXCEPT !.pc = "done", !.raised = Append(@, e),
              !.calls = @ \o [k \in 1..Len(st.calls) |->
                                [st.calls[Len(st.calls) + 1 - k] EXCEPT !.kind = "undo"]]]

\* variant of Catch: the failing step leaves null in the accumulator
CatchStoresNull(st, e) ==
    [addMessage(st, FailedMessage(e))
       EXCEPT !.pc = "done", !.raised = Append(@, e),
              !.stepOutputs = [k \in DOMAIN st.stepOutputs \cup {st.index} |->
                                 IF k = st.index THEN Null ELSE st.stepOutputs[k]]]

\* catch (e) { addMessage(FAILED) } : the handler ends
Catch(st, e) ==
    [addMessage(st, FailedMessage(e)) EXCEPT !.pc = "done", !.raised = Append(@, e)]

\* variant of Store: the output is filed under the one-based step number
StoreOneBased(outs, i, out) ==
    [k \in DOMAIN outs \cup {i + 1} |-> IF k = i + 1 THEN out ELSE outs[k]]

\* stepOutputs[index] = currentStepOutput
Store(outs, i, out) == [k \in DOMAIN outs \cup {i} |-> IF k = i THEN out ELSE outs[k]]

RECURSIVE RunLoop(_, _, _)
\* the for..of loop from the iteration st.index on, up to the first await
\* that suspends it or to the end of the handler
RunLoop(st, p, ps) ==
    LET i == st.index IN
    IF i >= Len(p)
    THEN [addMessage(st, CompletedMessage) EXCEPT !.pc = "done"]
    ELSE
      LET step == p[i + 1]
          s1 == [addMessage(st, ProgressMessage(i, Len(p), step.tool))
                   EXCEPT !.trace = Append(@, Event("progress", i))]
          r == Resolve(step.args, s1.stepOutputs)
          s2 == [s1 EXCEPT !.trace = Append(@, Event("resolve", i)),
                           !.resolutions = Append(@, [step |-> i, args |-> step.args,
                                                      outs |-> s1.stepOutputs,
                                                      ok |-> r.ok, str |-> r.str,
                                                      err |-> r.err,
                                                      reads |-> ReadsFrom(step.args, 1,
                                                                          s1.stepOutputs)])]
          kind == DispatchKind(step.tool, ps)
      IN  IF ~r.ok THEN Catch(s2, r.err)
          ELSE IF kind = "unknown" THEN Catch(s2, UnknownToolError(step.tool))
          ELSE IF kind = "final"
          THEN RunLoop([addMessage(s2, FinalAnswerMessage(r.str))
                          EXCEPT !.trace = @ \o <<Event("dispatch", i), Event("complete", i)>>,
                                 !.stepOutputs = Store(@, i, Null),
                                 !.index = i + 1], p, ps)
          ELSE
            LET s3 == [s2 EXCEPT !.trace = Append(@, Event("dispatch", i)),
                                 !.calls = Append(@, [step |-> i, tool |-> step.tool,
                                                      kind |-> kind,
                                                      plugin |-> IF kind = "custom"
                                                                 THEN FindCustomTool(ps, step.tool).plugin
                                                                 ELSE "",
                                                      args |-> r.str]),
                                 !.inflight = @ \cup {i}]
            IN  IF Awaited(step.tool)
                THEN [s3 EXCEPT !.pc = "awaiting"]
                ELSE RunLoop([s3 EXCEPT !.stepOutputs = Store(@, i, Null),
                                        !.index = i + 1], p, ps)

\* the variables of the loop take the values of the run state rs
Becomes(rs) ==
    \E st \in {rs} :
    /\ pc' = st.pc
    /\ index' = st.index
    /\ stepOutputs' = st.stepOutputs
    /\ inflight' = st.inflight
    /\ messages' = st.messages
    /\ calls' = st.calls
    /\ returns' = st.returns
    /\ trace' = st.trace
    /\ resolutions' = st.resolutions
    /\ raised' = st.raised

(***************************************************************************)
(* Actions                                                                 *)
(***************************************************************************)
\* the state of a handleCommand invocation that has not started
VoiceIdle ==
    [pc |-> "idle", goal |-> "", plan |-> <<>>, index |-> 0, stepOutputs |-> <<>>,
     inflight |-> {}, messages |-> <<>>, calls |-> <<>>, returns |-> <<>>,
     trace |-> <<>>, resolutions |-> <<>>, raised |-> <<>>, planRequests |-> 0,
     response |-> NoResponse]

\* no /agent invocation has started
AgentIdle ==
    /\ pc = "idle"
    /\ goal = ""
    /\ plan = <<>>
    /\ index = 0
    /\ stepOutputs = <<>>
    /\ inflight = {}
    /\ calls = <<>>
    /\ returns = <<>>
    /\ trace = <<>>
    /\ resolutions = <<>>
    /\ raised = <<>>
    /\ planRequests = 0
    /\ response = NoResponse
    /\ voice = VoiceIdle

\* getChatHistory has not been called
NotCalled == [called |-> FALSE, history |-> <<>>]

HistoryIdle == contents = NotCalled

\* Date.now() when the page loads: later than every stored session was made
LoadTime == 3

NoSessionOp == [op |-> "none", id |-> Null, sessions |-> <<>>, activeSessionId |-> Null]

\* useState<ChatSession[]>([]), useState<string | null>(null)
SessionsIdle ==
    /\ mounted = FALSE
    /\ sessions = <<>>
    /\ activeSessionId = Null
    /\ clock = LoadTime
    /\ lastSessionOp = NoSessionOp

\* useState(false), useState<string | null>(null) twice
ReplyIdle ==
    /\ isReplying = FALSE
    /\ currentTask = Null
    /\ error = Null
    /\ sends = <<>>

\* no handleIngestUrls invocation has started
BatchNotStarted ==
    [pc |-> "idle", urls |-> <<>>, index |-> 0, plugins |-> <<>>,
     currentPluginNames |-> {}, successfullyIngestedPlugins |-> <<>>,
     requests |-> <<>>, settled |-> <<>>]

BatchIdle == batch = BatchNotStarted

\* no startStream invocation has started
StreamNotStarted ==
    [pc |-> "idle", run |-> 0, key |-> Null, outcome |-> "none", starts |-> <<>>]

\* private connection: Connection | null = null; no key stored
StreamIdle ==
    /\ connection = Null
    /\ streamKey = Null
    /\ stream = StreamNotStarted
    /\ vmixLog = <<>>

Init ==
    /\ AgentIdle
    /\ plugins \in PluginLists
    /\ messages = <<>>
    /\ HistoryIdle
    /\ SessionsIdle
    /\ ReplyIdle
    /\ BatchIdle
    /\ StreamIdle

\* case '/agent' up to the await of createExecutionPlan
AgentCommand(g) ==
    /\ pc = "idle"
    /\ goal' = g
    /\ IF g = ""
       THEN /\ Becomes([addMessage(RunState, UsageMessage) EXCEPT !.pc = "done"])
            /\ planRequests' = planRequests
       ELSE /\ Becomes([addMessage(RunState, EngagedMessage) EXCEPT !.pc = "planning"])
            /\ planRequests' = planRequests + 1
    /\ UNCHANGED <<plugins, plan, response, voice, shell>>

\* variant of PlanSettles: a rejected plan request is made again
PlanSettlesRetries ==
    /\ pc = "planning"
    /\ \E resp \in ModelResponses :
         LET r == createExecutionPlan(resp)
         IN  /\ response' = resp
             /\ IF r.ok
                THEN /\ plan' = r.plan
                     /\ planRequests' = planRequests
                     /\ Becomes(RunLoop([addMessage(RunState, FormulatedMessage(r.plan))
                                           EXCEPT !.index = 0, !.stepOutputs = <<>>],
                                        r.plan, plugins))
                ELSE /\ plan' = plan
                     /\ planRequests' = planRequests + 1
                     /\ Becomes(RunState)
    /\ UNCHANGED <<goal, plugins, voice, shell>>

\* createExecutionPlan settles with the model's response: the plan is
\* announced and the loop runs to its first await, or the rejection is caught
PlanSettlesFrom(responses) ==
    /\ pc = "planning"
    /\ \E resp \in responses :
         LET r == createExecutionPlan(resp)
         IN  /\ response' = resp
             /\ IF r.ok
                THEN /\ plan' = r.plan
                     /\ Becomes(RunLoop([addMessage(RunState, FormulatedMessage(r.plan))
                                           EXCEPT !.index = 0, !.stepOutputs = <<>>],
                                        r.plan, plugins))
                ELSE /\ plan' = plan
                     /\ Becomes(Catch(RunState, r.err))
    /\ UNCHANGED <<goal, plugins, planRequests, voice, shell>>

\* in a single run the model may answer with any of the responses
PlanSettles == PlanSettlesFrom(ModelResponses)

\* variant of ToolReturns: the branch leaves the iteration before the store
ToolReturnsSkipsStore(text) ==
    /\ pc = "awaiting"
    /\ index \in inflight
    /\ LET tool == plan[index + 1].tool
           s1 == [addMessage(RunState, ResultMessage(tool, text))
                    EXCEPT !.inflight = @ \ {index},
                           !.returns = Append(@, [step |-> index, text |-> text]),
                           !.trace = Append(@, Event("complete", index)),
                           !.index = index + 1]
       IN  Becomes(RunLoop(s1, plan, plugins))
    /\ UNCHANGED <<goal, plugins, plan, planRequests, response, voice, shell>>

\* variant of ToolReturns: the resolved arguments of the next step are written
\* back into the plan
ToolReturnsRewritesPlan(text) ==
    /\ pc = "awaiting"
    /\ index \in inflight
    /\ LET tool == plan[index + 1].tool
           out == StepOutput(tool, text)
           s1 == [addMessage(RunState, ResultMessage(tool, text))
                    EXCEPT !.inflight = @ \ {index},
                           !.returns = Append(@, [step |-> index, text |-> text]),
                           !.trace = Append(@, Event("complete", index)),
                           !.stepOutputs = Store(@, index, out),
                           !.index = index + 1]
       IN  Becomes(RunLoop(s1, plan, plugins))
    /\ plan' = LET n == Len(resolutions')
               IN  IF n > Len(resolutions) /\ resolutions'[n].ok
                   THEN [plan EXCEPT ![resolutions'[n].step + 1].args = resolutions'[n].str]
                   ELSE plan
    /\ UNCHANGED <<goal, plugins, planRequests, response, voice, shell>>

\* the awaited tool call of the current step returns: its branch stores the
\* output and emits its message, and the loop goes on to its next await
ToolReturns(text) ==
    /\ pc = "awaiting"
    /\ index \in inflight
    /\ LET tool == plan[index + 1].tool
           out == StepOutput(tool, text)
           s1 == [addMessage(RunState, ResultMessage(tool, text))
                    EXCEPT !.inflight = @ \ {index},
                           !.returns = Append(@, [step |-> index, text |-> text]),
                           !.trace = Append(@, Event("complete", index)),
                           !.stepOutputs = Store(@, index, out),
                           !.index = index + 1]
       IN  Becomes(RunLoop(s1, plan, plugins))
    /\ UNCHANGED <<goal, plugins, plan, planRequests, response, voice, shell>>

\* variant of ToolThrows: the failure is reported and the loop goes on with
\* the next step
ToolThrowsContinues(detail) ==
    /\ pc = "awaiting"
    /\ index \in inflight
    /\ LET tool == plan[index + 1].tool
           s1 == [RunState EXCEPT !.inflight = @ \ {index},
                                  !.trace = Append(@, Event("complete", index))]
           s2 == Catch(s1, ToolError(tool, DispatchKind(tool, plugins), detail))
       IN  Becomes(RunLoop([s2 EXCEPT !.stepOutputs = Store(@, index, Null),
                                      !.index = index + 1], plan, plugins))
    /\ UNCHANGED <<goal, plugins, plan, planRequests, response, voice, shell>>

\* variant of ToolThrows: the failure ends the run without a word
ToolThrowsCancels(detail) ==
    /\ pc = "awaiting"
    /\ index \in inflight
    /\ Becomes([RunState EXCEPT !.inflight = @ \ {index},
                                !.trace = Append(@, Event("complete", index)),
                                !.pc = "done"])
    /\ UNCHANGED <<goal, plugins, plan, planRequests, response, voice, shell>>

\* the awaited tool call of the current step throws: the catch block reports
\* the failure and the handler ends
ToolThrows(detail) ==
    /\ pc = "awaiting"
    /\ index \in inflight
    /\ LET tool == plan[index + 1].tool
           s1 == [RunState EXCEPT !.inflight = @ \ {index},
                                  !.trace = Append(@, Event("complete", index))]
       IN  Becomes(Catch(s1, ToolError(tool, DispatchKind(tool, plugins), detail)))
    /\ UNCHANGED <<goal, plugins, plan, planRequests, response, voice, shell>>

Next ==
    \/ \E g \in Goals : AgentCommand(g)
    \/ PlanSettles
    \/ \E text \in BackendTexts : ToolReturns(text)
    \/ \E detail \in BackendFailures : ToolThrows(detail)

Spec == Init /\ [][Next]_vars

\* every awaited tool call settles: the call of step i, once in flight, does
\* not stay in flight for ever.  ToolReturns and ToolThrows are enabled
\* exactly while a call is in flight and are the only steps that end it, so
\* this is weak fairness of their disjunction
EveryCallSettles ==
    \A i \in 0..(MaxPlanLen - 1) : (i \in inflight) ~> (i \notin inflight)

\* the plans of the runs followed to their end: the tools that store their
\* result or null and the unknown ones, with and without a placeholder
FairSteps == [thought : {"t"}, tool : PlanTools \ {"video"}, args : {ArgPlain, ArgReport}]

FairResponses ==
    {Response("response", TRUE, "object", "array",
              [i \in 1..Len(p) |-> GoodElement(p[i])]) :
       p \in SeqsUpTo(FairSteps, MaxPlanLen)}
    \cup {Response("response", FALSE, "undefined", "undefined", <<>>)}

NextFair ==
    \/ \E g \in Goals : AgentCommand(g)
    \/ PlanSettlesFrom(FairResponses)
    \/ \E text \in BackendTexts : ToolReturns(text)
    \/ \E detail \in BackendFailures : ToolThrows(detail)

\* a run in which every awaited tool call returns or throws
FairSpec == Init /\ [][NextFair]_vars /\ EveryCallSettles

(***************************************************************************)
(* Two invocations in flight: handleSendMessage starts handleCommand       *)
(* without looking at isReplying, so a completed voice turn can start an   *)
(* /agent run while a typed one is suspended at an await.  The two         *)
(* invocations share the transcript and the plugins; each has its own      *)
(* plan, cursor and stepOutputs.                                           *)
(***************************************************************************)
\* addMessage({ role: 'user', content: fullInput })
UserMessage == Message("user", "user input", "", 0, 0, <<>>, NoError, <<>>)

\* plans small enough for two runs side by side: one reads the output of an
\* earlier step of its own, one reads {{step_1_output}} at its first step
ConcurrentPlans ==
    {<<[thought |-> "t", tool |-> "search", args |-> ArgPlain],
       [thought |-> "t", tool |-> "search", args |-> ArgReport]>>,
     <<[thought |-> "t", tool |-> "search", args |-> ArgPlain],
       [thought |-> "t", tool |-> "finalAnswer", args |-> ArgReport]>>,
     <<[thought |-> "t", tool |-> "finalAnswer", args |-> ArgReport]>>}

ConcurrentResponses ==
    {Response("response", TRUE, "object", "array",
              [i \in 1..Len(p) |-> GoodElement(p[i])]) : p \in ConcurrentPlans}
    \cup {Response("response", FALSE, "undefined", "undefined", <<>>)}

ConcurrentTexts == {<<"r">>, <<"v">>}

\* the variables of the typed invocation
typedVars ==
    <<pc, goal, plan, index, stepOutputs, inflight, calls, returns, trace,
      resolutions, raised, planRequests, response>>

\* variant of VoiceRunState: the accumulator is one object for both invocations
VoiceRunStateSharesOutputs ==
    [voice EXCEPT !.messages = messages, !.stepOutputs = stepOutputs]

\* what the voice invocation works on: its own locals and the shared transcript
VoiceRunState == [voice EXCEPT !.messages = messages]

\* the voice invocation takes the values of rs; its messages go to the transcript
VoiceBecomes(rs) ==
    /\ messages' = rs.messages
    /\ voice' = [rs EXCEPT !.messages = <<>>]
    /\ UNCHANGED typedVars
    /\ UNCHANGED plugins
    /\ UNCHANGED shell

\* turnComplete with the transcription "/agent <goal>": the user message is
\* added and handleSendMessage runs handleCommand up to its first await
VoiceTurn(g) ==
    /\ voice.pc = "idle"
    /\ VoiceBecomes([addMessage(addMessage(VoiceRunState, UserMessage), EngagedMessage)
                       EXCEPT !.pc = "planning", !.goal = g, !.planRequests = @ + 1])

VoicePlanSettles ==
    /\ voice.pc = "planning"
    /\ \E resp \in ConcurrentResponses :
         LET r == createExecutionPlan(resp)
             st == [VoiceRunState EXCEPT !.response = resp]
         IN  IF r.ok
             THEN VoiceBecomes(RunLoop([addMessage(st, FormulatedMessage(r.plan))
                                          EXCEPT !.plan = r.plan, !.index = 0,
                                                 !.stepOutputs = <<>>],
                                       r.plan, plugins))
             ELSE VoiceBecomes(Catch(st, r.err))

VoiceToolReturns(text) ==
    /\ voice.pc = "awaiting"
    /\ voice.index \in voice.inflight
    /\ LET i == voice.index
           tool == voice.plan[i + 1].tool
           s1 == [addMessage(VoiceRunState, ResultMessage(tool, text))
                    EXCEPT !.inflight = @ \ {i},
                           !.returns = Append(@, [step |-> i, text |-> text]),
                           !.trace = Append(@, Event("complete", i)),
                           !.stepOutputs = Store(@, i, StepOutput(tool, text)),
                           !.index = i + 1]
       IN  VoiceBecomes(RunLoop(s1, voice.plan, plugins))

VoiceToolThrows(detail) ==
    /\ voice.pc = "awaiting"
    /\ voice.index \in voice.inflight
    /\ LET i == voice.index
           tool == voice.plan[i + 1].tool
           s1 == [VoiceRunState EXCEPT !.inflight = @ \ {i},
                                       !.trace = Append(@, Event("complete", i))]
       IN  VoiceBecomes(Catch(s1, ToolError(tool, DispatchKind(tool, plugins), detail)))

NextConcurrent ==
    \/ AgentCommand("goal")
    \/ PlanSettlesFrom(ConcurrentResponses)
    \/ \E text \in ConcurrentTexts : ToolReturns(text)
    \/ \E detail \in BackendFailures : ToolThrows(detail)
    \/ VoiceTurn("goal")
    \/ VoicePlanSettles
    \/ \E text \in ConcurrentTexts : VoiceToolReturns(text)
    \/ \E detail \in BackendFailures : VoiceToolThrows(detail)

SpecConcurrent == Init /\ [][NextConcurrent]_vars

(***************************************************************************)
(* getChatHistory: the transcript as the model API takes it                *)
(***************************************************************************)
\* a chat entry: role and content
ChatMessage(role, text) == Message(role, "chat", "", 0, 0, text, NoError, <<>>)

Roles == {"user", "fux", "system_core"}

ChatTexts == {<<"a">>, <<"b">>}

ChatMessages == {ChatMessage(role, text) : role \in Roles, text \in ChatTexts}

Transcripts == SeqsUpTo(ChatMessages, MaxHistory)

\* messages.filter(m => m.role !== 'system_core')
\*         .map(m => ({ role: m.role === 'fux' ? 'model' : 'user', parts: [{ text: m.content }] }))
FilterMap(ms) ==
    LET kept == SelectSeq(ms, LAMBDA m : m.role # "system_core")
    IN  [i \in 1..Len(kept) |->
           [role |-> IF kept[i].role = "fux" THEN "model" ELSE "user",
            parts |-> <<[text |-> kept[i].text]>>]]

\* history.findIndex(m => m.role === 'user'): zero-based, -1 if there is none
FindIndexUser(history) ==
    LET hits == {i \in 1..Len(history) : history[i].role = "user"}
    IN  IF hits = {} THEN -1 ELSE (CHOOSE i \in hits : \A j \in hits : i <= j) - 1

\* variant of getChatHistory: the mapped history is returned whole
getChatHistoryUnsliced(ms) == FilterMap(ms)

getChatHistory(ms) ==
    LET history == FilterMap(ms)
        firstUserIndex == FindIndexUser(history)
    IN  IF firstUserIndex = -1 THEN <<>>
        ELSE SubSeq(history, firstUserIndex + 1, Len(history))

\* a transcript of any shape is handed to getChatHistory
InitHistory ==
    /\ AgentIdle
    /\ plugins = <<>>
    /\ messages \in Transcripts
    /\ HistoryIdle
    /\ SessionsIdle
    /\ ReplyIdle
    /\ BatchIdle
    /\ StreamIdle

\* const historyForModel = getChatHistory(history)
AnalyzeCode ==
    /\ ~contents.called
    /\ contents' = [called |-> TRUE, history |-> getChatHistory(messages)]
    /\ UNCHANGED <<agentVars, plugins, messages, sessionVars, replyVars, batchVars,
                   streamVars>>

NextHistory == AnalyzeCode

SpecHistory == InitHistory /\ [][NextHistory]_vars

(***************************************************************************)
(* handleIngestUrls: batch ingestion of repositories                       *)
(***************************************************************************)
Urls == {"u1", "u2"}

UrlLists == SeqsUpTo(Urls, MaxUrls)

\* what fetchRepoContents and ingestRepository can throw
FetchFailures == {"Invalid GitHub repository URL format"}

IngestFailures == {"The AI core failed to generate a valid module definition."}

\* the modules ingestRepository can return: the model is asked for a name
\* that is not in use, and may return one that is
NewPlugins ==
    {[power_name |-> "A", tools |-> <<"myTool">>],
     [power_name |-> "C", tools |-> <<>>]}

\* a task line or an error banner
Text(parts) == [t |-> "string", v |-> parts]

BatchMessage(kind, subject, detail) ==
    Message("system_core", kind, subject, 0, 0, <<>>, Error("none", "", <<>>, 0, detail), <<>>)

InitiatedKind == "[BATCH INGESTION PROTOCOL] Initiated for"

FetchingKind == "[INGESTION] Fetching content from"

AnalyzingKind == "[INGESTION] Analyzing"

IngestedKind == "Successfully ingested and activated Power Module:"

IngestionFailedKind == "[INGESTION FAILED for"

BatchCompletedKind == "[BATCH INGESTION PROTOCOL] Completed."

\* what a handleIngestUrls invocation works on
BatchState ==
    [batch |-> batch, messages |-> messages, plugins |-> plugins,
     isReplying |-> isReplying, currentTask |-> currentTask, error |-> error]

\* the top of the loop body, up to the await of fetchRepoContents
StartFetch(st) ==
    LET url == st.batch.urls[st.batch.index + 1]
    IN  [addMessage(st, BatchMessage(FetchingKind, url, ""))
           EXCEPT !.currentTask = Text(<<"Fetching:", url>>),
                  !.batch.pc = "fetching",
                  !.batch.requests = Append(@, [index |-> st.batch.index, url |-> url,
                                                call |-> "fetchRepoContents",
                                                existingNames |-> {}])]

\* after the loop: the ingested plugins are appended, the batch is reported
\* complete and the busy flag is cleared
BatchFinish(st) ==
    LET ok == st.batch.successfullyIngestedPlugins
        s1 == IF Len(ok) > 0 THEN [st EXCEPT !.plugins = @ \o ok] ELSE st
    IN  [addMessage(s1, BatchMessage(BatchCompletedKind, "", ""))
           EXCEPT !.isReplying = FALSE, !.currentTask = Null, !.batch.pc = "done"]

\* the for..of loop goes to its next URL, or ends
BatchNext(st) ==
    LET s1 == [st EXCEPT !.batch.index = @ + 1]
    IN  IF s1.batch.index < Len(s1.batch.urls) THEN StartFetch(s1) ELSE BatchFinish(s1)

\* variant of BatchCatch: a failed URL ends the batch
BatchCatchAborts(st, detail) ==
    LET url == st.batch.urls[st.batch.index + 1]
    IN  BatchFinish([addMessage(st, BatchMessage(IngestionFailedKind, url, detail))
                       EXCEPT !.error = Text(<<"Failed to ingest repository from", url, detail>>)])

\* the catch block inside the loop body, and the loop going on
BatchCatch(st, detail) ==
    LET url == st.batch.urls[st.batch.index + 1]
    IN  BatchNext([addMessage(st, BatchMessage(IngestionFailedKind, url, detail))
                     EXCEPT !.error = Text(<<"Failed to ingest repository from", url, detail>>)])

BatchBecomes(st) ==
    /\ batch' = st.batch
    /\ messages' = st.messages
    /\ plugins' = st.plugins
    /\ isReplying' = st.isReplying
    /\ currentTask' = st.currentTask
    /\ error' = st.error
    /\ UNCHANGED <<agentVars, historyVars, sessionVars, sends, streamVars>>

\* handleIngestUrls(urls) up to its first await
IngestUrls(urls) ==
    /\ batch.pc = "idle"
    /\ LET s1 == [addMessage(BatchState, BatchMessage(InitiatedKind, "", ""))
                    EXCEPT !.isReplying = TRUE,
                           !.batch.urls = urls,
                           !.batch.plugins = plugins,
                           !.batch.currentPluginNames =
                              {plugins[i].power_name : i \in 1..Len(plugins)}]
       IN  BatchBecomes(IF Len(urls) > 0 THEN StartFetch(s1) ELSE BatchFinish(s1))

\* fetchRepoContents resolves: the loop body goes on to the await of
\* ingestRepository
FetchReturns ==
    /\ batch.pc = "fetching"
    /\ LET url == batch.urls[batch.index + 1]
       IN  BatchBecomes(
             [addMessage(BatchState, BatchMessage(AnalyzingKind, url, ""))
                EXCEPT !.currentTask = Text(<<"Ingesting:", url>>),
                       !.batch.pc = "ingesting",
                       !.batch.settled = Append(@, [index |-> batch.index,
                                                    call |-> "fetchRepoContents",
                                                    ok |-> TRUE, name |-> ""]),
                       !.batch.requests = Append(@, [index |-> batch.index, url |-> url,
                                                     call |-> "ingestRepository",
                                                     existingNames |-> batch.currentPluginNames])])

FetchThrows(detail) ==
    /\ batch.pc = "fetching"
    /\ BatchBecomes(BatchCatch(
         [BatchState EXCEPT !.batch.settled =
            Append(@, [index |-> batch.index, call |-> "fetchRepoContents",
                       ok |-> FALSE, name |-> ""])], detail))

\* ingestRepository resolves with a module: it is pushed, its name is added to
\* the local set, and the loop goes on
IngestReturns(newPlugin) ==
    /\ batch.pc = "ingesting"
    /\ BatchBecomes(BatchNext(
         [addMessage(BatchState, BatchMessage(IngestedKind, newPlugin.power_name, ""))
            EXCEPT !.batch.successfullyIngestedPlugins = Append(@, newPlugin),
                   !.batch.currentPluginNames = @ \cup {newPlugin.power_name},
                   !.batch.settled = Append(@, [index |-> batch.index,
                                                call |-> "ingestRepository",
                                                ok |-> TRUE,
                                                name |-> newPlugin.power_name])]))

IngestThrows(detail) ==
    /\ batch.pc = "ingesting"
    /\ BatchBecomes(BatchCatch(
         [BatchState EXCEPT !.batch.settled =
            Append(@, [index |-> batch.index, call |-> "ingestRepository",
                       ok |-> FALSE, name |-> ""])], detail))

NextBatch ==
    \/ \E urls \in UrlLists : IngestUrls(urls)
    \/ FetchReturns
    \/ \E detail \in FetchFailures : FetchThrows(detail)
    \/ \E newPlugin \in NewPlugins : IngestReturns(newPlugin)
    \/ \E detail \in IngestFailures : IngestThrows(detail)

SpecBatch == Init /\ [][NextBatch]_vars

(***************************************************************************)
(* Chat sessions: load on mount, create, switch, delete                    *)
(***************************************************************************)
\* `session_${Date.now()}`
SessionId(now) == [t |-> "string", v |-> <<"session_", now>>]

Greeting == "FuX CORE ONLINE"

\* the session createNewSession makes
NewSession(now) ==
    [id |-> SessionId(now), title |-> "New Session", messages |-> <<Greeting>>]

\* a session that was used and stored at an earlier time
StoredSession(then) ==
    [id |-> SessionId(then), title |-> "Chat", messages |-> <<Greeting, "hello">>]

\* localStorage['fux_chat_sessions'] and ['fux_active_session_id']: absent
\* (null), or what the save effect wrote
NoItem == [t |-> "null", v |-> <<>>]

StoredLists ==
    {<<>>, <<StoredSession(1)>>, <<StoredSession(2), StoredSession(1)>>,
     <<StoredSession(1), StoredSession(2)>>}

StoredActiveIds == {NoItem, SessionId(1), SessionId(2)}

Stored ==
    {[sessions |-> NoItem, active |-> a] : a \in StoredActiveIds}
    \cup {[sessions |-> [t |-> "array", v |-> l], active |-> a] :
            l \in StoredLists, a \in StoredActiveIds}

\* the session part of the state
SessionState == [sessions |-> sessions, activeSessionId |-> activeSessionId]

IdsOf(l) == {l[i].id : i \in 1..Len(l)}

\* createNewSession: the new session goes to the front and becomes active
createNewSession(st, now) ==
    [sessions |-> <<NewSession(now)>> \o st.sessions,
     activeSessionId |-> SessionId(now)]

\* the mount effect: the stored sessions, or a new one
LoadSessions(st, item, now) ==
    IF item.sessions = NoItem THEN createNewSession(st, now)
    ELSE IF Len(item.sessions.v) > 0
         THEN [sessions |-> item.sessions.v,
               activeSessionId |->
                 IF item.active # NoItem /\ item.active \in IdsOf(item.sessions.v)
                 THEN item.active
                 ELSE item.sessions.v[1].id]
         ELSE createNewSession(st, now)

\* handleDeleteSession: the updater passed to setSessions, followed by the
\* updates it queued through createNewSession
handleDeleteSession(st, sessionId, now) ==
    LET prev == st.sessions
        newSessions == SelectSeq(prev, LAMBDA x : x.id # sessionId)
        found == {i \in 1..Len(prev) : prev[i].id = SessionId(now)}
        kept == IF found = {} THEN <<>>
                ELSE <<prev[CHOOSE i \in found : \A j \in found : i <= j]>>
    IN  IF st.activeSessionId = sessionId
        THEN IF Len(newSessions) > 0
             THEN [sessions |-> newSessions, activeSessionId |-> newSessions[1].id]
             ELSE createNewSession([st EXCEPT !.sessions = kept], now)
        ELSE IF Len(newSessions) = 0
             THEN createNewSession([st EXCEPT !.sessions = newSessions], now)
             ELSE [st EXCEPT !.sessions = newSessions]

SessionBecomes(st, op, id) ==
    /\ sessions' = st.sessions
    /\ activeSessionId' = st.activeSessionId
    /\ lastSessionOp' = [op |-> op, id |-> id, sessions |-> sessions,
                         activeSessionId |-> activeSessionId]
    /\ UNCHANGED <<agentVars, plugins, messages, historyVars, clock, replyVars,
                   batchVars, streamVars>>

\* the effect that runs once after the first render
Mount(item) ==
    /\ ~mounted
    /\ mounted' = TRUE
    /\ SessionBecomes(LoadSessions(SessionState, item, clock), "load", Null)

\* time passes between two events
Tick ==
    /\ mounted
    /\ clock < MaxClock
    /\ clock' = clock + 1
    /\ UNCHANGED <<agentVars, plugins, messages, historyVars, mounted, sessions,
                   activeSessionId, lastSessionOp, replyVars, batchVars, streamVars>>

HandleCreateNewSession ==
    /\ mounted
    /\ Len(sessions) < MaxSessions
    /\ UNCHANGED mounted
    /\ SessionBecomes(createNewSession(SessionState, clock), "create", SessionId(clock))

\* a session of the list is chosen in the history panel
HandleSwitchSession(sessionId) ==
    /\ mounted
    /\ sessionId \in IdsOf(sessions)
    /\ UNCHANGED mounted
    /\ SessionBecomes([SessionState EXCEPT !.activeSessionId = sessionId],
                      "switch", sessionId)

HandleDeleteSession(sessionId) ==
    /\ mounted
    /\ sessionId \in IdsOf(sessions)
    /\ UNCHANGED mounted
    /\ SessionBecomes(handleDeleteSession(SessionState, sessionId, clock),
                      "delete", sessionId)

SessionIds == {SessionId(now) : now \in 1..MaxClock}

NextSessions ==
    \/ \E item \in Stored : Mount(item)
    \/ Tick
    \/ HandleCreateNewSession
    \/ \E sessionId \in SessionIds : HandleSwitchSession(sessionId)
    \/ \E sessionId \in SessionIds : HandleDeleteSession(sessionId)

SpecSessions == Init /\ [][NextSessions]_vars

(***************************************************************************)
(* handleSendMessage: typed and voice invocations and the busy flag        *)
(***************************************************************************)
\* what handleSendMessage works on
ReplyState ==
    [messages |-> messages, isReplying |-> isReplying, currentTask |-> currentTask,
     error |-> error, sends |-> sends]

\* handleSendMessage from setInput('') to its await: the command branch
\* awaits handleCommand, the other sets the task line and awaits analyzeCode
SendStarts(st, source, isCommand) ==
    LET s1 == [st EXCEPT !.isReplying = TRUE,
                         !.error = Null,
                         !.sends = Append(@, [source |-> source, command |-> isCommand,
                                              pc |-> "awaiting"])]
    IN  IF isCommand THEN s1
        ELSE [s1 EXCEPT !.currentTask = Text(<<"Analyzing request...">>)]

\* finally { setIsReplying(false); setCurrentTask(null); }
SendFinally(st, k) ==
    [st EXCEPT !.isReplying = FALSE, !.currentTask = Null, !.sends[k].pc = "finished"]

ReplyBecomes(st) ==
    /\ messages' = st.messages
    /\ isReplying' = st.isReplying
    /\ currentTask' = st.currentTask
    /\ error' = st.error
    /\ sends' = st.sends
    /\ UNCHANGED <<agentVars, plugins, historyVars, sessionVars, batchVars, streamVars>>

\* the form is submitted: handleSubmit calls onSendMessage() unless busy
TypedSend(isCommand) ==
    /\ ~isReplying
    /\ Len(sends) < MaxSends
    /\ ReplyBecomes(SendStarts(addMessage(ReplyState, ChatMessage("user", <<"a">>)),
                               "typed", isCommand))

\* turnComplete of the live session: the transcription is added and
\* handleSendMessage(fullInput) is called, busy or not
VoiceSend(isCommand) ==
    /\ Len(sends) < MaxSends
    /\ ReplyBecomes(SendStarts(addMessage(ReplyState, ChatMessage("user", <<"b">>)),
                               "voice", isCommand))

\* handleCommand sets the task line while it runs
CommandProgress(k) ==
    /\ k \in 1..Len(sends)
    /\ sends[k].pc = "awaiting"
    /\ sends[k].command
    /\ ReplyBecomes([ReplyState EXCEPT !.currentTask = Text(<<"Executing step">>)])

\* the awaited call of invocation k resolves
SendReturns(k) ==
    /\ k \in 1..Len(sends)
    /\ sends[k].pc = "awaiting"
    /\ ReplyBecomes(SendFinally(
         IF sends[k].command THEN ReplyState
         ELSE addMessage(ReplyState, ChatMessage("fux", <<"r">>)), k))

\* the awaited call of invocation k throws: the catch block, then finally
SendThrows(k) ==
    /\ k \in 1..Len(sends)
    /\ sends[k].pc = "awaiting"
    /\ ReplyBecomes(SendFinally(
         [addMessage(ReplyState, ChatMessage("system_core", <<"ERROR:">>))
            EXCEPT !.error = Text(<<"An unexpected error occurred.">>)], k))

NextReply ==
    \/ \E isCommand \in BOOLEAN : TypedSend(isCommand)
    \/ \E isCommand \in BOOLEAN : VoiceSend(isCommand)
    \/ \E k \in 1..MaxSends : CommandProgress(k)
    \/ \E k \in 1..MaxSends : SendReturns(k)
    \/ \E k \in 1..MaxSends : SendThrows(k)

SpecReply == Init /\ [][NextReply]_vars

(***************************************************************************)
(* twitchService.startStream over vmixService.sendCommand                  *)
(***************************************************************************)
TWITCH_RTMP_URL == <<"rtmp://live.twitch.tv/app/">>

\* vmixService.connection after setConnection(host, port)
Connected == [t |-> "object", v |-> <<"host", "8088">>]

\* the keys the Connections Panel can store: its Save button is disabled
\* while the field is empty
StreamKeys == {Str(<<"k">>), Str(<<"j">>)}

StreamState ==
    [connection |-> connection, streamKey |-> streamKey, stream |-> stream,
     vmixLog |-> vmixLog]

\* the promise of startStream rejects
StreamRejects(st, detail) ==
    [st EXCEPT !.stream.pc = "failed", !.stream.outcome = detail]

\* vmixService.sendCommand up to its await of fetch: it throws when there is
\* no connection, otherwise the request goes out
sendCommand(st, func, value) ==
    IF st.connection = Null
    THEN StreamRejects(st, "Not connected to vMix. Please connect in the Connections Panel.")
    ELSE [st EXCEPT !.vmixLog = Append(@, [run |-> st.stream.run, func |-> func,
                                           value |-> value, settled |-> "pending"]),
                    !.stream.pc = func]

\* startStream up to its first await
startStream(st) ==
    LET s1 == [st EXCEPT !.stream.run = @ + 1,
                         !.stream.key = st.streamKey,
                         !.stream.outcome = "none",
                         !.stream.starts = Append(@, [connection |-> st.connection,
                                                      streamKey |-> st.streamKey])]
    IN  IF st.connection = Null
        THEN StreamRejects(s1, "vMix is not connected. Cannot start stream.")
        ELSE IF st.streamKey = Null \/ st.streamKey = Str(<<>>)
             THEN StreamRejects(s1, "Twitch stream key is not configured.")
             ELSE sendCommand(s1, "StreamingSetURL", TWITCH_RTMP_URL)

\* the request in flight is settled in the log
Settle(st, how) == [st EXCEPT !.vmixLog[Len(st.vmixLog)].settled = how]

\* startStream after an await of sendCommand returned
AfterCommand(st) ==
    CASE st.stream.pc = "StreamingSetURL" ->
           sendCommand(st, "StreamingSetKey", String(st.stream.key))
      [] st.stream.pc = "StreamingSetKey" ->
           sendCommand(st, "StartStreaming", <<>>)
      [] OTHER ->
           [st EXCEPT !.stream.pc = "done",
                      !.stream.outcome = "Twitch stream initiated via vMix."]

StreamBecomes(st) ==
    /\ connection' = st.connection
    /\ streamKey' = st.streamKey
    /\ stream' = st.stream
    /\ vmixLog' = st.vmixLog
    /\ UNCHANGED <<agentVars, plugins, messages, historyVars, sessionVars, replyVars,
                   batchVars>>

\* the Connections Panel: connect, disconnect, save a key, clear it
SetConnection ==
    /\ connection' = Connected
    /\ UNCHANGED <<agentVars, plugins, messages, historyVars, sessionVars, replyVars,
                   batchVars, streamKey, stream, vmixLog>>

Disconnect ==
    /\ connection' = Null
    /\ UNCHANGED <<agentVars, plugins, messages, historyVars, sessionVars, replyVars,
                   batchVars, streamKey, stream, vmixLog>>

SetStreamKey(key) ==
    /\ streamKey' = key
    /\ UNCHANGED <<agentVars, plugins, messages, historyVars, sessionVars, replyVars,
                   batchVars, connection, stream, vmixLog>>

ClearStreamKey ==
    /\ streamKey' = Null
    /\ UNCHANGED <<agentVars, plugins, messages, historyVars, sessionVars, replyVars,
                   batchVars, connection, stream, vmixLog>>

StreamAwaiting == stream.pc \in {"StreamingSetURL", "StreamingSetKey", "StartStreaming"}

\* /twitch start_stream
StartStream ==
    /\ ~StreamAwaiting
    /\ stream.run < MaxStarts
    /\ StreamBecomes(startStream(StreamState))

\* fetch resolves with an opaque response: sendCommand returns
CommandReturns ==
    /\ StreamAwaiting
    /\ StreamBecomes(AfterCommand(Settle(StreamState, "sent")))

\* variant of CommandThrows: the failure of a command is ignored
CommandThrowsIgnored ==
    /\ StreamAwaiting
    /\ StreamBecomes(AfterCommand(Settle(StreamState, "failed")))

\* fetch rejects, or the response is not opaque: sendCommand throws and
\* startStream with it
CommandThrows ==
    /\ StreamAwaiting
    /\ StreamBecomes(StreamRejects(Settle(StreamState, "failed"),
                                   "Failed to send command to vMix. Check connection."))

NextStream ==
    \/ SetConnection
    \/ Disconnect
    \/ \E key \in StreamKeys : SetStreamKey(key)
    \/ ClearStreamKey
    \/ StartStream
    \/ CommandReturns
    \/ CommandThrows

SpecStream == Init /\ [][NextStream]_vars

(***************************************************************************)
(* Vocabulary of the properties                                            *)
(***************************************************************************)
FailedKind == "AGENT MODE: FAILED. Error:"

CompletedKind == "AGENT MODE: COMPLETED."

ProgressKind == "[STEP] Executing"

MessagesOfKind(kind) == {k \in 1..Len(messages) : messages[k].kind = kind}

HasFailed == MessagesOfKind(FailedKind) # {}

HasCompleted == MessagesOfKind(CompletedKind) # {}

LastMessageIsFailed ==
    Len(messages) >= 1 /\ messages[Len(messages)].kind = FailedKind

\* a placeholder token with n digits starts at position p of s
TokenAt(s, p, n) ==
    /\ n >= 1
    /\ p >= 1
    /\ p + 15 + n <= Len(s)
    /\ SubSeq(s, p, p + 6) = <<"{", "{", "s", "t", "e", "p", "_">>
    /\ \A k \in (p + 7)..(p + 6 + n) : s[k] \in DigitChars
    /\ SubSeq(s, p + 7 + n, p + 15 + n) = <<"_", "o", "u", "t", "p", "u", "t", "}", "}">>

\* the placeholder tokens of s: where each starts, its length, its text and
\* the step number N written in {{step_N_output}}
TokensOf(s) ==
    {[p |-> x[1], len |-> 16 + x[2],
      text |-> SubSeq(s, x[1], x[1] + 15 + x[2]),
      number |-> ParseInt(SubSeq(s, x[1] + 7, x[1] + 6 + x[2]))] :
       x \in {y \in (1..Len(s)) \X (1..Len(s)) : TokenAt(s, y[1], y[2])}}

TokenTable == [s \in ArgStrings |-> TokensOf(s)]

Tokens(s) == TokenTable[s]

\* the token t can be resolved against outs
Resolvable(t, outs) ==
    /\ t.number - 1 \in DOMAIN outs
    /\ outs[t.number - 1].t = "string"

Unresolvable(s, outs) == {t \in Tokens(s) : ~Resolvable(t, outs)}

\* the leftmost token of a non-empty set of tokens
Leftmost(T) == CHOOSE t \in T : \A u \in T : t.p <= u.p

(***************************************************************************)
(* C1: in an agent run the steps are dispatched strictly in plan order and *)
(* never overlap: the dispatch of step i, its tool call included, has      *)
(* completed before the progress message, placeholder resolution or        *)
(* dispatch of any later step begins.                                      *)
(***************************************************************************)
C1_SequentialDispatch ==
    /\ \A a, b \in 1..Len(trace) : a < b => trace[a].step <= trace[b].step
    /\ \A a, b \in 1..Len(trace) :
         (a < b /\ trace[a].ev = "dispatch" /\ trace[a].step < trace[b].step)
           => \E c \in (a + 1)..(b - 1) : trace[c] = Event("complete", trace[a].step)
    /\ \A i \in inflight : i = index /\ pc = "awaiting"
    /\ \A a, b \in 1..Len(calls) : a < b => calls[a].step < calls[b].step

\* step 0's tool call has returned and step 1's tool call is in flight
C1_Witness ==
    /\ pc = "awaiting"
    /\ Len(calls) = 2
    /\ inflight = {1}
    /\ \E c \in 1..Len(trace) : trace[c] = Event("complete", 0)

(***************************************************************************)
(* C2: the first error raised at a step i aborts the run: for no later     *)
(* step is a progress message emitted, a placeholder resolved or a tool    *)
(* dispatched, and no COMPLETED marker is emitted.                         *)
(***************************************************************************)
C2_FirstErrorAborts ==
    HasFailed =>
      /\ pc = "done"
      /\ inflight = {}
      /\ LastMessageIsFailed
      /\ ~HasCompleted
      /\ \A k \in MessagesOfKind(ProgressKind) : messages[k].n <= index + 1
      /\ \A k \in 1..Len(resolutions) : resolutions[k].step <= index
      /\ \A k \in 1..Len(calls) : calls[k].step <= index
      /\ \A k \in 1..Len(trace) : trace[k].step <= index

\* a tool back-end threw at step 0 of a plan that has a later step
C2_Witness ==
    /\ HasFailed
    /\ index = 0
    /\ Len(plan) = 2
    /\ Len(calls) = 1
    /\ Len(raised) = 1 /\ raised[1].kind = "tool back-end error"

(***************************************************************************)
(* C3: no compensation: a step that ends in failure issues no tool call,   *)
(* the calls made by the earlier steps stay as they were made, and nothing *)
(* is called once the run has failed.                                      *)
(***************************************************************************)
C3_NoCompensation ==
    [][/\ Len(calls') >= Len(calls)
       /\ SubSeq(calls', 1, Len(calls)) = calls
       /\ (MessagesOfKind(FailedKind)' # {}) => calls' = calls]_vars

\* step 0's tool call was made and returned, then step 1 failed at dispatch
C3_Witness ==
    /\ HasFailed
    /\ index = 1
    /\ Len(calls) = 1 /\ calls[1].step = 0
    /\ Len(returns) = 1
    /\ raised[1].kind = "Unknown tool specified by agent"

(***************************************************************************)
(* C4: resolving an argument string with a placeholder whose step output   *)
(* is not populated or out of range (step 0, the step itself, a step       *)
(* beyond the plan) raises an error that names the placeholder and the     *)
(* step number; the token is not skipped, and no partly substituted string *)
(* is produced or dispatched even when other tokens could be resolved.     *)
(***************************************************************************)
C4_UnpopulatedRaises ==
    \A k \in 1..Len(resolutions) :
      LET r == resolutions[k]
          missing == {t \in Tokens(r.args) : t.number - 1 \notin DOMAIN r.outs}
          first == Leftmost(Unresolvable(r.args, r.outs))
      IN  missing # {} =>
            /\ ~r.ok
            /\ r.str = <<>>
            /\ r.err.kind = "Could not resolve placeholder"
            /\ r.err.placeholder = first.text
            /\ r.err.step = first.number
            /\ \A c \in 1..Len(calls) : calls[c].step # r.step
            /\ Len(messages) >= 2
            /\ messages[Len(messages) - 1].kind = ProgressKind
            /\ messages[Len(messages) - 1].n = r.step + 1
            /\ LastMessageIsFailed
            /\ messages[Len(messages)].err = r.err

\* at step 1 the first token was resolvable and {{step_0_output}} was not
C4_Witness ==
    \E k \in 1..Len(resolutions) :
      /\ resolutions[k].step = 1
      /\ resolutions[k].args = ArgZero
      /\ ~resolutions[k].ok
      /\ resolutions[k].err.step = 0
      /\ resolutions[k].outs[0].t = "string"

(***************************************************************************)
(* The result of a resolution, stated by position                          *)
(***************************************************************************)
\* the text a token stands for: the string form of the referenced output
Replacement(t, outs) == String(Lookup(outs, t.number - 1))

RECURSIVE ShiftOver(_, _)
\* by how much replacing the tokens of T changes the length
ShiftOver(T, outs) ==
    IF T = {} THEN 0
    ELSE LET t == Leftmost(T)
         IN  Len(Replacement(t, outs)) - t.len + ShiftOver(T \ {t}, outs)

\* where the character at q of s stands once the tokens left of q are replaced
Shift(s, q, outs) == ShiftOver({t \in Tokens(s) : t.p < q}, outs)

InToken(s, q) == \E t \in Tokens(s) : t.p <= q /\ q < t.p + t.len

\* in str the token t of s is replaced by its output, in place
ReplacedInPlace(s, t, outs, str) ==
    LET at == t.p + Shift(s, t.p, outs)
        text == Replacement(t, outs)
    IN  /\ at + Len(text) - 1 <= Len(str)
        /\ SubSeq(str, at, at + Len(text) - 1) = text

\* in str every character of s outside the tokens is kept, in place
SurroundingKept(s, outs, str) ==
    /\ Len(str) = Len(s) + Shift(s, Len(s) + 1, outs)
    /\ \A q \in 1..Len(s) : ~InToken(s, q) => str[q + Shift(s, q, outs)] = s[q]

(***************************************************************************)
(* C5 as stated: every placeholder token {{step_k_output}} of an argument  *)
(* string whose outputs[k-1] is defined is replaced by the string form of  *)
(* outputs[k-1], and the surrounding text stays unchanged and in place.    *)
(* "Defined" is read as narrowly as the text allows: the output was stored *)
(* and is a string, neither null nor undefined.                            *)
(***************************************************************************)
C5_AsStated ==
    \A k \in 1..Len(resolutions) :
      LET r == resolutions[k] IN
      \A t \in Tokens(r.args) :
        Resolvable(t, r.outs) =>
          /\ r.ok
          /\ ReplacedInPlace(r.args, t, r.outs, r.str)
          /\ SurroundingKept(r.args, r.outs, r.str)

(***************************************************************************)
(* C5 amended: when every placeholder token of the argument string         *)
(* references an output that is defined and not null, resolution succeeds, *)
(* replaces every token by the string form of its output verbatim and      *)
(* leaves the surrounding text unchanged and in place; when some token     *)
(* references a null or missing output no token is replaced.               *)
(***************************************************************************)
C5_SubstitutesVerbatim ==
    \A k \in 1..Len(resolutions) :
      LET r == resolutions[k] IN
      IF Unresolvable(r.args, r.outs) = {}
      THEN /\ r.ok
           /\ \A t \in Tokens(r.args) : ReplacedInPlace(r.args, t, r.outs, r.str)
           /\ SurroundingKept(r.args, r.outs, r.str)
      ELSE ~r.ok /\ r.str = <<>>

\* "W: {{step_1_output}}!" was resolved to "W: r!"
C5_Witness ==
    \E k \in 1..Len(resolutions) :
      /\ resolutions[k].args = ArgReport
      /\ resolutions[k].ok
      /\ resolutions[k].str = <<"W", ":", " ", "r", "!">>

(***************************************************************************)
(* C6: resolving an argument string that contains no placeholder token     *)
(* returns it unchanged, whatever the accumulator holds.                   *)
(***************************************************************************)
C6_NoTokenUnchanged ==
    \A k \in 1..Len(resolutions) :
      Tokens(resolutions[k].args) = {} =>
        resolutions[k].ok /\ resolutions[k].str = resolutions[k].args

\* a string with braces but no token was resolved against a non-empty accumulator
C6_Witness ==
    \E k \in 1..Len(resolutions) :
      /\ resolutions[k].args = ArgNearMiss
      /\ DOMAIN resolutions[k].outs = {0}
      /\ resolutions[k].outs[0].t = "string"
      /\ resolutions[k].str = ArgNearMiss

(***************************************************************************)
(* C7: dispatching a step whose tool name is neither a built-in identifier *)
(* nor exactly the name of a tool of an ingested plugin raises 'Unknown    *)
(* tool specified by agent: <name>' with that name, and the run is aborted.*)
(***************************************************************************)
BuiltinNames ==
    {"vmix", "blender", "video", "spotify", "twitch", "generateImage", "search",
     "finalAnswer"}

PluginToolNames ==
    {plugins[i].tools[j] : <<i, j>> \in
       {x \in (1..Len(plugins)) \X (1..2) : x[2] <= Len(plugins[x[1]].tools)}}

C7_UnknownToolRaises ==
    \A k \in 1..Len(resolutions) :
      LET r == resolutions[k]
          tool == plan[r.step + 1].tool
      IN  (r.ok /\ tool \notin BuiltinNames /\ tool \notin PluginToolNames) =>
            /\ pc = "done"
            /\ index = r.step
            /\ LastMessageIsFailed
            /\ messages[Len(messages)].err.kind = "Unknown tool specified by agent"
            /\ messages[Len(messages)].err.tool = tool
            /\ ~HasCompleted
            /\ \A c \in 1..Len(calls) : calls[c].step # r.step

\* "Search" at step 1 is unknown although a plugin offers a tool "search"
C7_Witness ==
    /\ plugins # <<>>
    /\ index = 1
    /\ Len(plan) = 2 /\ plan[2].tool = "Search"
    /\ LastMessageIsFailed
    /\ messages[Len(messages)].err.tool = "Search"

(***************************************************************************)
(* C8: every agent run that starts ends with exactly one terminal entry,   *)
(* COMPLETED or FAILED, never both and never more than one; an error of    *)
(* plan generation, placeholder resolution or dispatch surfaces as that    *)
(* single FAILED entry with the error's message, and nothing is retried.   *)
(***************************************************************************)
TerminalCount ==
    Cardinality(MessagesOfKind(FailedKind)) + Cardinality(MessagesOfKind(CompletedKind))

C8_ExactlyOneTerminal ==
    /\ TerminalCount <= 1
    /\ pc \in {"idle", "planning", "awaiting"} => TerminalCount = 0
    /\ (pc = "done" /\ goal # "") =>
         /\ TerminalCount = 1
         /\ messages[Len(messages)].kind \in {FailedKind, CompletedKind}
    /\ (pc = "done" /\ goal = "") => TerminalCount = 0
    /\ Len(raised) <= 1
    /\ HasFailed <=> Len(raised) = 1
    /\ HasFailed =>
         LET e == messages[Len(messages)].err IN
         /\ e = raised[1]
         /\ e.kind # "none"
         /\ plan = <<>> /\ resolutions = <<>> =>
              e.kind \in {"model call failed",
                          "The AI core failed to generate a valid execution plan."}
         /\ e.kind = "Could not resolve placeholder" =>
              e = resolutions[Len(resolutions)].err
         /\ e.kind \in {"Agent vMix command failed", "tool back-end error",
                        "Execution failed for tool"} =>
              e.detail \in BackendFailures /\ e.tool = plan[index + 1].tool
    /\ planRequests <= 1
    /\ pc # "idle" /\ goal # "" => planRequests = 1
    /\ \A a, b \in 1..Len(calls) : a # b => calls[a].step # calls[b].step
    /\ \A a, b \in MessagesOfKind(ProgressKind) : a # b => messages[a].n # messages[b].n

\* a run ended by the failure of the vmix call of its second step
C8_Witness ==
    /\ pc = "done"
    /\ index = 1
    /\ TerminalCount = 1
    /\ LastMessageIsFailed
    /\ messages[Len(messages)].err.kind = "Agent vMix command failed"

(***************************************************************************)
(* C9: a placeholder at step i that references a step not yet executed     *)
(* (index >= i) makes resolution at step i raise at once: the tool of step *)
(* i is not dispatched, no later step runs and the run reports failure.    *)
(***************************************************************************)
C9_ForwardReferenceFails ==
    \A k \in 1..Len(resolutions) :
      LET r == resolutions[k] IN
      (\E t \in Tokens(r.args) : t.number - 1 >= r.step) =>
        /\ ~r.ok
        /\ k = Len(resolutions)
        /\ pc = "done"
        /\ index = r.step
        /\ LastMessageIsFailed
        /\ messages[Len(messages)].err.kind = "Could not resolve placeholder"
        /\ ~HasCompleted
        /\ \A c \in 1..Len(calls) : calls[c].step < r.step
        /\ \A m \in MessagesOfKind(ProgressKind) : messages[m].n <= r.step + 1

\* step 0 of a two-step plan referenced the output of step 1
C9_Witness ==
    /\ Len(plan) = 2
    /\ plan[1].args = ArgForward
    /\ Len(resolutions) = 1
    /\ ~resolutions[1].ok
    /\ resolutions[1].err.step = 2
    /\ HasFailed

(***************************************************************************)
(* C10: the text substituted for {{step_k_output}} at a later step is      *)
(* exactly what the dispatch of step k-1 returned in this run; a captured  *)
(* output is written once and not altered between capture and use, so the  *)
(* final message of a search-then-finalAnswer plan carries the search      *)
(* result text inline.                                                     *)
(***************************************************************************)
SearchThenAnswer ==
    <<[thought |-> "t", tool |-> "search", args |-> ArgPlain],
      [thought |-> "t", tool |-> "finalAnswer", args |-> ArgReport]>>

C10_DataFlow ==
    /\ \A a, b \in 1..Len(returns) : a < b => returns[a].step < returns[b].step
    /\ \A a \in 1..Len(returns) :
         LET i == returns[a].step IN
         /\ i \in DOMAIN stepOutputs
         /\ plan[i + 1].tool \in {"search", "myTool"} => stepOutputs[i] = Str(returns[a].text)
    /\ \A k \in 1..Len(resolutions) :
         LET r == resolutions[k] IN
         /\ \A j \in DOMAIN r.outs : j \in DOMAIN stepOutputs /\ stepOutputs[j] = r.outs[j]
         /\ r.ok =>
              \A t \in Tokens(r.args) :
                \E a \in 1..Len(returns) :
                  /\ returns[a].step = t.number - 1
                  /\ returns[a].step < r.step
                  /\ Replacement(t, r.outs) = returns[a].text
                  /\ ReplacedInPlace(r.args, t, r.outs, r.str)
    /\ (plan = SearchThenAnswer /\ HasCompleted) =>
         \E m \in MessagesOfKind("finalAnswer") :
           messages[m].text = <<"W", ":", " ">> \o returns[1].text \o <<"!">>

\* the search returned "r" and the final answer read "W: r!"
C10_Witness ==
    /\ plan = SearchThenAnswer
    /\ HasCompleted
    /\ returns[1].text = <<"r">>
    /\ \E m \in MessagesOfKind("finalAnswer") : messages[m].text = <<"W", ":", " ", "r", "!">>

(***************************************************************************)
(* C11: for a plan without placeholders whose tool calls all succeed,      *)
(* every step's tool is invoked exactly once, the output of step i is      *)
(* captured at accumulator index i, the run ends with the completion       *)
(* marker, and no accumulator entry is read during the run.                *)
(***************************************************************************)
FormulatedKind == "Execution plan formulated"

Formulated == MessagesOfKind(FormulatedKind) # {}

NoPlaceholders(p) == \A i \in 1..Len(p) : Tokens(p[i].args) = {}

AllToolsKnown(p) == \A i \in 1..Len(p) : p[i].tool \in BuiltinNames \cup PluginToolNames

ToolFailureKinds ==
    {"Agent vMix command failed", "tool back-end error", "Execution failed for tool"}

ToolCallFailed == \E k \in 1..Len(raised) : raised[k].kind \in ToolFailureKinds

\* how often step i was dispatched, and how often its tool back-end was called
DispatchesOf(i) == Cardinality({k \in 1..Len(trace) : trace[k] = Event("dispatch", i)})

CallsOf(i) == Cardinality({c \in 1..Len(calls) : calls[c].step = i})

C11_PlainPlanCompletes ==
    (Formulated /\ NoPlaceholders(plan) /\ AllToolsKnown(plan) /\ ~ToolCallFailed) =>
      /\ \A k \in 1..Len(resolutions) : resolutions[k].reads = <<>> /\ resolutions[k].ok
      /\ \A i \in 0..(Len(plan) - 1) :
           /\ DispatchesOf(i) <= 1
           /\ CallsOf(i) <= 1
           /\ i < index =>
                /\ DispatchesOf(i) = 1
                /\ CallsOf(i) = IF plan[i + 1].tool = "finalAnswer" THEN 0 ELSE 1
      /\ \A c \in 1..Len(calls) :
           /\ calls[c].tool = plan[calls[c].step + 1].tool
           /\ calls[c].args = plan[calls[c].step + 1].args
      /\ DOMAIN stepOutputs = 0..(index - 1)
      /\ \A a \in 1..Len(returns) :
           LET i == returns[a].step
               tool == plan[i + 1].tool
           IN  /\ tool = "vmix" => stepOutputs[i] = Null
               /\ tool \notin {"vmix", "video"} => stepOutputs[i] = Str(returns[a].text)
      /\ pc = "done" =>
           /\ index = Len(plan)
           /\ HasCompleted
           /\ ~HasFailed
           /\ messages[Len(messages)] = CompletedMessage

\* a search and a final answer, neither with a placeholder, ran to completion
C11_Witness ==
    /\ pc = "done"
    /\ HasCompleted
    /\ Len(plan) = 2
    /\ plan[1].tool = "search" /\ plan[1].args = ArgPlain
    /\ plan[2].tool = "finalAnswer" /\ plan[2].args = ArgNearMiss
    /\ Len(calls) = 1
    /\ stepOutputs[0] = Str(<<"r">>)
    /\ stepOutputs[1] = Null
    /\ \A k \in 1..Len(resolutions) : resolutions[k].reads = <<>>

(***************************************************************************)
(* C12: after step i completes successfully its output (or null) is stored *)
(* at index i, so when step i begins the accumulator holds an entry for    *)
(* exactly the indices 0..i-1 and for none >= i; a failing step stores     *)
(* nothing.                                                                *)
(***************************************************************************)
AccumulatorIndices ==
    /\ \A k \in 1..Len(resolutions) :
         DOMAIN resolutions[k].outs = 0..(resolutions[k].step - 1)
    /\ DOMAIN stepOutputs = 0..(index - 1)
    /\ \A i \in DOMAIN stepOutputs :
         /\ \E k \in 1..Len(trace) : trace[k] = Event("complete", i)
         /\ plan[i + 1].tool \in {"vmix", "finalAnswer"} => stepOutputs[i] = Null
         /\ plan[i + 1].tool \in {"search", "myTool"} =>
              \E a \in 1..Len(returns) :
                returns[a].step = i /\ stepOutputs[i] = Str(returns[a].text)
    /\ HasFailed => index \notin DOMAIN stepOutputs
    /\ HasCompleted => DOMAIN stepOutputs = 0..(Len(plan) - 1)

\* an entry, once stored, stays as it was stored
EntriesKept ==
    \A i \in DOMAIN stepOutputs :
      i \in DOMAIN stepOutputs' /\ stepOutputs'[i] = stepOutputs[i]

\* C12: the accumulator holds exactly the indices of the completed steps at
\* every moment of a run, and a stored entry is never changed afterwards
C12_AccumulatorIndices == []AccumulatorIndices /\ [][EntriesKept]_vars

\* step 0 stored null, then the tool call of step 1 threw and stored nothing
C12_Witness ==
    /\ HasFailed
    /\ index = 1
    /\ DOMAIN stepOutputs = {0}
    /\ stepOutputs[0] = Null
    /\ Len(calls) = 2
    /\ raised[1].kind \in ToolFailureKinds

(***************************************************************************)
(* C13: createExecutionPlan returns the model's plan if and only if the    *)
(* response parses as JSON, its plan field is an array and every element   *)
(* has string-typed thought, tool and args; for any other response it      *)
(* throws the generic 'failed to generate a valid execution plan' error    *)
(* and returns no partial plan.                                            *)
(***************************************************************************)
\* the response is one the claim calls valid
WellFormed(resp) ==
    /\ resp.parses
    /\ resp.planType = "array"
    /\ \A i \in 1..Len(resp.plan) :
         /\ ~resp.plan[i].isNull
         /\ {resp.plan[i].thoughtType, resp.plan[i].toolType, resp.plan[i].argsType}
              = {"string"}

\* the steps the response carries, read as AgentStep values
StepsOf(resp) ==
    [i \in 1..Len(resp.plan) |->
       [thought |-> resp.plan[i].thought, tool |-> resp.plan[i].tool,
        args |-> resp.plan[i].args]]

C13_PlanValidation ==
    response.status = "response" =>
      /\ Formulated <=> WellFormed(response)
      /\ WellFormed(response) =>
           /\ plan = StepsOf(response)
           /\ messages[2] = FormulatedMessage(StepsOf(response))
           /\ \A k \in 1..Len(raised) : raised[k] # PlanError
      /\ ~WellFormed(response) =>
           /\ plan = <<>>
           /\ raised = <<PlanError>>
           /\ messages = <<EngagedMessage, FailedMessage(PlanError)>>
           /\ trace = <<>>
           /\ calls = <<>>

\* a response whose first element is a well-formed step and whose second is
\* not was rejected as a whole
C13_Witness ==
    /\ response.status = "response"
    /\ Len(response.plan) = 2
    /\ WellFormed([response EXCEPT !.plan = SubSeq(@, 1, 1)])
    /\ ~response.plan[2].isNull
    /\ response.plan[2].toolType = "number"
    /\ raised = <<PlanError>>
    /\ plan = <<>>

(***************************************************************************)
(* C14: when plan generation fails the run is aborted before any step      *)
(* runs: the model is asked exactly once, there is no 'Execution plan      *)
(* formulated' message, no '[STEP ...]' progress message and no tool       *)
(* dispatch, and the FAILED entry follows the 'AGENT MODE: ENGAGED' entry. *)
(***************************************************************************)
PlanGenerationFailed ==
    \/ response.status = "networkError"
    \/ response.status = "response" /\ ~WellFormed(response)

C14_PlanFailureAborts ==
    PlanGenerationFailed =>
      /\ pc = "done"
      /\ planRequests = 1
      /\ ~Formulated
      /\ MessagesOfKind(ProgressKind) = {}
      /\ resolutions = <<>>
      /\ calls = <<>>
      /\ trace = <<>>
      /\ stepOutputs = <<>>
      /\ Len(messages) = 2
      /\ messages[1] = EngagedMessage
      /\ messages[2].kind = FailedKind
      /\ messages[2].err = raised[1]
      /\ messages[2].err.kind \in
           {"The AI core failed to generate a valid execution plan.", "model call failed"}

\* the response text was not JSON and the run ended with ENGAGED, FAILED
C14_Witness ==
    /\ response.status = "response"
    /\ ~response.parses
    /\ pc = "done"
    /\ Len(messages) = 2
    /\ messages[1] = EngagedMessage
    /\ messages[2] = FailedMessage(PlanError)

(***************************************************************************)
(* C15: a finalAnswer step performs no external tool call; it emits its    *)
(* resolved argument string as a chat message and captures no output (null *)
(* is stored at its index), so that message is the last step-produced      *)
(* message of a plan that ends with finalAnswer.                           *)
(***************************************************************************)
\* the position in the transcript of the progress message of step i
ProgressAt(i) == CHOOSE m \in MessagesOfKind(ProgressKind) : messages[m].n = i + 1

C15_FinalAnswerIsLocal ==
    /\ \A c \in 1..Len(calls) : calls[c].tool # "finalAnswer"
    /\ \A k \in 1..Len(resolutions) :
         LET r == resolutions[k] IN
         (plan[r.step + 1].tool = "finalAnswer" /\ r.ok) =>
           /\ CallsOf(r.step) = 0
           /\ \A a \in 1..Len(returns) : returns[a].step # r.step
           /\ messages[ProgressAt(r.step) + 1] = FinalAnswerMessage(r.str)
           /\ r.step \in DOMAIN stepOutputs
           /\ stepOutputs[r.step] = Null
           /\ index > r.step
    /\ Cardinality(MessagesOfKind("finalAnswer")) =
         Cardinality({k \in 1..Len(resolutions) :
                        plan[resolutions[k].step + 1].tool = "finalAnswer"
                        /\ resolutions[k].ok})
    /\ (HasCompleted /\ plan # <<>> /\ plan[Len(plan)].tool = "finalAnswer") =>
         /\ messages[Len(messages)] = CompletedMessage
         /\ messages[Len(messages) - 1] =
              FinalAnswerMessage(resolutions[Len(resolutions)].str)

\* a plugin tool ran, then finalAnswer closed the plan with its own message
C15_Witness ==
    /\ HasCompleted
    /\ Len(plan) = 2
    /\ plan[1].tool = "myTool"
    /\ plan[2].tool = "finalAnswer"
    /\ plan[2].args = ArgTwice
    /\ Len(calls) = 1
    /\ messages[Len(messages) - 1].kind = "finalAnswer"
    /\ stepOutputs[1] = Null

(***************************************************************************)
(* C16: for the step at index i of a plan of N steps the progress message  *)
(* '[STEP i+1/N] Executing: <tool>' is emitted before the step's           *)
(* placeholders are resolved and before its tool is dispatched; so it is   *)
(* emitted also for the step at which resolution or dispatch fails, and    *)
(* exactly once per step reached.                                          *)
(***************************************************************************)
\* the steps the loop has reached
StepsReached ==
    IF ~Formulated THEN {} ELSE {i \in 0..(Len(plan) - 1) : i <= index}

\* the positions in the trace of the events ev of step i
EventsAt(ev, i) == {k \in 1..Len(trace) : trace[k] = Event(ev, i)}

C16_ProgressFirst ==
    /\ \A i \in StepsReached :
         /\ Cardinality({m \in MessagesOfKind(ProgressKind) : messages[m].n = i + 1}) = 1
         /\ messages[ProgressAt(i)] =
              Message("system_core", ProgressKind, plan[i + 1].tool, i + 1, Len(plan),
                      <<>>, NoError, <<>>)
         /\ Cardinality(EventsAt("progress", i)) = 1
         /\ \A k \in EventsAt("resolve", i) \cup EventsAt("dispatch", i) :
              \E a \in EventsAt("progress", i) : a < k
         /\ \A m \in 1..Len(messages) :
              (messages[m].kind \in {"tool result", "finalAnswer"} /\ ProgressAt(i) < m
               /\ \A j \in StepsReached : j > i => m < ProgressAt(j))
                => \E k \in EventsAt("dispatch", i) : TRUE
    /\ \A m \in MessagesOfKind(ProgressKind) : messages[m].n - 1 \in StepsReached
    /\ \A k \in 1..Len(resolutions) :
         \E a \in EventsAt("progress", resolutions[k].step) :
           \A b \in EventsAt("resolve", resolutions[k].step) : a < b
    /\ \A c \in 1..Len(calls) :
         \E a \in EventsAt("progress", calls[c].step) :
           \A b \in EventsAt("dispatch", calls[c].step) : a < b
    /\ HasFailed /\ Formulated =>
         /\ index \in StepsReached
         /\ messages[Len(messages) - 1] =
              Message("system_core", ProgressKind, plan[index + 1].tool, index + 1,
                      Len(plan), <<>>, NoError, <<>>)
            \/ raised[1].kind \in ToolFailureKinds

\* resolution failed at step 1 of 2 right after its progress message
C16_Witness ==
    /\ HasFailed
    /\ index = 1
    /\ raised[1].kind = "Could not resolve placeholder"
    /\ Len(calls) = 1
    /\ messages[Len(messages) - 1].kind = ProgressKind
    /\ messages[Len(messages) - 1].n = 2
    /\ messages[Len(messages) - 1].of = 2

(***************************************************************************)
(* C17: the step-outputs accumulator is scoped to one plan run: it starts  *)
(* empty for each run, and when two agent runs are in flight at the same   *)
(* time a placeholder in one run never resolves to, and is never made      *)
(* resolvable by, an output captured in the other run.                     *)
(***************************************************************************)
\* every resolution of a run with plan p, resolutions res and tool returns
\* rets saw only what the run itself had captured before that step
OwnAccumulator(p, res, rets) ==
    \A k \in 1..Len(res) :
      LET r == res[k]
          own(j) == {a \in 1..Len(rets) : rets[a].step = j}
      IN  /\ DOMAIN r.outs = 0..(r.step - 1)
          /\ \A j \in DOMAIN r.outs :
               IF p[j + 1].tool = "finalAnswer"
               THEN r.outs[j] = Null
               ELSE \E a \in own(j) : r.outs[j] = Str(rets[a].text)
          /\ r.ok <=> \A t \in Tokens(r.args) :
                        /\ t.number - 1 \in 0..(r.step - 1)
                        /\ own(t.number - 1) # {}
          /\ r.ok => \A t \in Tokens(r.args) :
                       \E a \in own(t.number - 1) :
                         ReplacedInPlace(r.args, t, [j \in {t.number - 1} |->
                                                       Str(rets[a].text)], r.str)

C17_AccumulatorPerRun ==
    /\ OwnAccumulator(plan, resolutions, returns)
    /\ OwnAccumulator(voice.plan, voice.resolutions, voice.returns)
    /\ DOMAIN stepOutputs = 0..(index - 1)
    /\ DOMAIN voice.stepOutputs = 0..(voice.index - 1)

\* both runs wait for the tool of their second step, each having put its own
\* first output, "r" and "v", in place of {{step_1_output}}
C17_Witness ==
    /\ pc = "awaiting" /\ voice.pc = "awaiting"
    /\ index = 1 /\ voice.index = 1
    /\ calls[2].args = <<"W", ":", " ", "r", "!">>
    /\ voice.calls[2].args = <<"W", ":", " ", "v", "!">>

(***************************************************************************)
(* C18: once a plan run has started the only way it stops before the last  *)
(* step is an error: if every tool call returns or throws the run          *)
(* eventually ends with a terminal marker, the marker is FAILED whenever   *)
(* fewer than N steps of an N-step plan were dispatched, and there is no   *)
(* pause, skip, resume or cancel transition.                               *)
(***************************************************************************)
StepsDispatched == {i \in 0..(Len(plan) - 1) : DispatchesOf(i) >= 1}

Terminated == pc = "done" /\ TerminalCount = 1

\* a run that is over has its marker; COMPLETED needs every step dispatched
\* (no skip), and a run short of that can only have ended with an error
StopsOnlyByError ==
    Formulated =>
      /\ pc \in {"awaiting", "done"}
      /\ pc = "done" => Terminated
      /\ pc = "awaiting" => TerminalCount = 0 /\ inflight = {index}
      /\ StepsDispatched \in {0..(index - 1), 0..index}
      /\ HasCompleted => StepsDispatched = 0..(Len(plan) - 1)
      /\ (Terminated /\ Cardinality(StepsDispatched) < Len(plan)) =>
           /\ LastMessageIsFailed
           /\ Len(raised) = 1

\* the cursor only moves forward (no resume), a waiting run leaves its wait
\* only when its call settles, going on with the next step unless the run
\* fails (no pause, no cancel), and a run that is over stays over
OnlyForward ==
    /\ Formulated => index' >= index /\ plan' = plan
    /\ pc = "awaiting" =>
         /\ Len(trace') > Len(trace)
         /\ trace'[Len(trace) + 1] = Event("complete", index)
         /\ index' = index => MessagesOfKind(FailedKind)' # {}
    /\ pc = "done" => UNCHANGED vars

C18_StopsOnlyByError ==
    /\ (Formulated ~> Terminated)
    /\ []StopsOnlyByError
    /\ [][OnlyForward]_vars

\* a two-step run that ended after dispatching its first step only
C18_Witness ==
    /\ Terminated
    /\ Len(plan) = 2
    /\ StepsDispatched = {0}
    /\ LastMessageIsFailed
    /\ raised[1].kind = "Execution failed for tool"

(***************************************************************************)
(* C19: plans are executed as given, with no normalization: a plan of zero *)
(* steps produces no progress message and no dispatch and ends with        *)
(* 'AGENT MODE: COMPLETED.'; a plan whose last step is not finalAnswer, or *)
(* that has finalAnswer before its last step, runs every step in order and *)
(* ends with COMPLETED if no step fails.                                   *)
(***************************************************************************)
\* no step of the run has failed: every resolution succeeded, every tool
\* reached was known and no tool call threw
NoStepFailed ==
    /\ ~ToolCallFailed
    /\ \A k \in 1..Len(resolutions) :
         /\ resolutions[k].ok
         /\ plan[resolutions[k].step + 1].tool \in BuiltinNames \cup PluginToolNames

\* the dispatch events of the trace, in the order they happened
Dispatches == SelectSeq(trace, LAMBDA e : e.ev = "dispatch")

C19_NoNormalization ==
    (response.status = "response" /\ WellFormed(response)) =>
      /\ Formulated
      /\ plan = StepsOf(response)
      /\ messages[2].agentPlan = StepsOf(response)
      /\ plan = <<>> =>
           /\ pc = "done"
           /\ messages = <<EngagedMessage, FormulatedMessage(<<>>), CompletedMessage>>
           /\ trace = <<>>
           /\ calls = <<>>
      /\ \A k \in 1..Len(Dispatches) :
           /\ Dispatches[k].step = k - 1
           /\ k <= Len(plan)
      /\ (pc = "done" /\ NoStepFailed) =>
           /\ HasCompleted
           /\ ~HasFailed
           /\ Len(Dispatches) = Len(plan)
           /\ Len(resolutions) = Len(plan)
           /\ \A i \in 1..Len(plan) :
                /\ resolutions[i].args = plan[i].args
                /\ plan[i].tool # "finalAnswer" =>
                     \E c \in 1..Len(calls) :
                       calls[c].step = i - 1 /\ calls[c].tool = plan[i].tool

\* finalAnswer came first and a search last: both ran and the run completed
C19_Witness ==
    /\ HasCompleted
    /\ Len(plan) = 2
    /\ plan[1].tool = "finalAnswer"
    /\ plan[2].tool = "search"
    /\ Len(calls) = 1
    /\ calls[1].step = 1
    /\ messages[Len(messages) - 1].kind = "tool result"

(***************************************************************************)
(* C20: tool names are not checked against the catalog before execution: a *)
(* structurally valid plan with an unknown tool at index i is accepted by  *)
(* createExecutionPlan, steps 0..i-1 are dispatched and their side effects *)
(* occur, and the run fails only when step i is reached.                   *)
(***************************************************************************)
\* the zero-based indices of the steps of p that name no known tool
UnknownSteps(p) ==
    {i \in 0..(Len(p) - 1) : p[i + 1].tool \notin BuiltinNames \cup PluginToolNames}

\* the least element of a non-empty set of numbers
Least(S) == CHOOSE i \in S : \A j \in S : i <= j

C20_UnknownToolFailsLate ==
    (response.status = "response" /\ WellFormed(response)
       /\ UnknownSteps(StepsOf(response)) # {}) =>
      LET i == Least(UnknownSteps(StepsOf(response))) IN
      /\ Formulated
      /\ plan = StepsOf(response)
      /\ index <= i
      /\ ~HasCompleted
      /\ \A k \in 1..Len(raised) :
           raised[k].kind = "Unknown tool specified by agent" =>
             /\ index = i
             /\ raised[k].tool = plan[i + 1].tool
      /\ (pc = "done" /\ index < i) =>
           /\ HasFailed
           /\ raised[1].kind # "Unknown tool specified by agent"
      /\ (pc = "done" /\ index = i) =>
           /\ \A j \in 0..(i - 1) :
                /\ DispatchesOf(j) = 1
                /\ j \in DOMAIN stepOutputs
                /\ plan[j + 1].tool # "finalAnswer" =>
                     /\ \E c \in 1..Len(calls) : calls[c].step = j
                     /\ \E a \in 1..Len(returns) : returns[a].step = j
                /\ plan[j + 1].tool = "finalAnswer" =>
                     MessagesOfKind("finalAnswer") # {}
           /\ \E m \in MessagesOfKind(ProgressKind) : messages[m].n = i + 1
           /\ DispatchesOf(i) = 0
           /\ resolutions[Len(resolutions)].ok =>
                raised = <<UnknownToolError(plan[i + 1].tool)>>

\* the plugin tool of step 0 was called and returned; step 1 named "Search"
C20_Witness ==
    /\ pc = "done"
    /\ Len(plan) = 2
    /\ plan[1].tool = "myTool"
    /\ plan[2].tool = "Search"
    /\ Len(calls) = 1 /\ calls[1].kind = "custom"
    /\ Len(returns) = 1
    /\ raised = <<UnknownToolError("Search")>>

(***************************************************************************)
(* C21: resolution is a single left-to-right pass over non-overlapping     *)
(* tokens: every occurrence of every placeholder, repeated ones included,  *)
(* is replaced independently, and inserted text is not rescanned, so an    *)
(* output that contains placeholder-shaped text is inserted literally and  *)
(* is neither expanded nor a cause of failure.                             *)
(***************************************************************************)
RECURSIVE Expand(_, _, _, _)
\* s from position from on, with the tokens of T, taken left to right, each
\* replaced by the string form of its output
Expand(s, T, from, outs) ==
    IF T = {} THEN SubSeq(s, from, Len(s))
    ELSE LET t == Leftmost(T)
         IN  SubSeq(s, from, t.p - 1) \o Replacement(t, outs)
             \o Expand(s, T \ {t}, t.p + t.len, outs)

RECURSIVE InOrder(_)
\* the accumulator keys of the tokens of T, left to right
InOrder(T) ==
    IF T = {} THEN <<>>
    ELSE LET t == Leftmost(T) IN <<t.number - 1>> \o InOrder(T \ {t})

C21_SinglePass ==
    \A k \in 1..Len(resolutions) :
      LET r == resolutions[k]
          T == Tokens(r.args)
      IN  /\ \A t, u \in T : t # u => (t.p + t.len <= u.p \/ u.p + u.len <= t.p)
          /\ r.ok <=> \A t \in T : Resolvable(t, r.outs)
          /\ r.ok =>
               /\ r.str = Expand(r.args, T, 1, r.outs)
               /\ r.reads = InOrder(T)

\* both occurrences of the placeholder for step 1 were replaced by step 0's
\* output "{{step_2_output}}", which stayed as it was
C21_Witness ==
    \E k \in 1..Len(resolutions) :
      /\ resolutions[k].args = ArgTwice
      /\ 0 \in DOMAIN resolutions[k].outs
      /\ resolutions[k].outs[0] = Str(Placeholder(<<"2">>))
      /\ resolutions[k].ok
      /\ resolutions[k].str = Placeholder(<<"2">>) \o <<"+">> \o Placeholder(<<"2">>)

(***************************************************************************)
(* C22: the built-in switch is consulted first and the plugin lookup only  *)
(* as its fallback: a step is dispatched to a custom tool exactly when its *)
(* name is not a built-in name and equals, case-sensitively, the name of a *)
(* tool of some ingested plugin; a plugin tool named like a built-in is    *)
(* never invoked; when several plugins offer the name, the first plugin in *)
(* list order is used; and the custom tool's result is the step's output.  *)
(***************************************************************************)
\* the plugins of the list that offer a tool of this exact name
Offering(tool) ==
    {i \in 1..Len(plugins) :
       \E j \in 1..Len(plugins[i].tools) : plugins[i].tools[j] = tool}

C22_BuiltinsShadowPlugins ==
    /\ \A c \in 1..Len(calls) :
         /\ calls[c].kind = "custom" <=>
              (calls[c].tool \notin BuiltinNames /\ Offering(calls[c].tool) # {})
         /\ calls[c].tool \in BuiltinNames =>
              (calls[c].kind = "builtin" /\ calls[c].plugin = "")
         /\ calls[c].kind = "custom" =>
              calls[c].plugin = plugins[Least(Offering(calls[c].tool))].power_name
    /\ \A k \in 1..Len(resolutions) :
         LET tool == plan[resolutions[k].step + 1].tool
         IN  (resolutions[k].ok /\ tool \notin BuiltinNames /\ Offering(tool) # {}) =>
               \E c \in 1..Len(calls) :
                 calls[c].step = resolutions[k].step /\ calls[c].kind = "custom"
    /\ \A x \in 1..Len(returns) :
         LET i == returns[x].step
         IN  (plan[i + 1].tool \notin BuiltinNames) =>
               /\ i \in DOMAIN stepOutputs
               /\ stepOutputs[i] = Str(returns[x].text)

\* "search", which the second plugin also offers, went to the built-in, and
\* "myTool", offered by both plugins, went to the first; its result is stored
C22_Witness ==
    /\ Len(plugins) = 2
    /\ Offering("search") = {2} /\ Offering("myTool") = {1, 2}
    /\ \E c, d \in 1..Len(calls) :
         /\ calls[c].tool = "search" /\ calls[c].kind = "builtin"
         /\ calls[d].tool = "myTool" /\ calls[d].kind = "custom"
         /\ calls[d].plugin = plugins[1].power_name
         /\ \E x \in 1..Len(returns) :
              /\ returns[x].step = calls[d].step
              /\ stepOutputs[calls[d].step] = Str(returns[x].text)

(***************************************************************************)
(* C23: the plan is immutable during a run: resolution produces a separate *)
(* string and leaves step.args as the model returned it, so the plan       *)
(* attached to the 'Execution plan formulated' message equals the model's  *)
(* plan at every point of the run.                                         *)
(***************************************************************************)
PlanAsReturned ==
    Formulated =>
      /\ plan = StepsOf(response)
      /\ \E m \in MessagesOfKind(FormulatedKind) : messages[m].agentPlan = StepsOf(response)
      /\ \A m \in MessagesOfKind(FormulatedKind) : messages[m].agentPlan = plan
      /\ \A k \in 1..Len(resolutions) :
           resolutions[k].args = StepsOf(response)[resolutions[k].step + 1].args

PlanKept ==
    Formulated =>
      /\ plan' = plan
      /\ \A m \in MessagesOfKind(FormulatedKind) :
           m \in DOMAIN messages' /\ messages'[m] = messages[m]

C23_PlanImmutable == []PlanAsReturned /\ [][PlanKept]_vars

\* a finished run in which a step was called with arguments that differ from
\* its args in the plan, which still holds the placeholder
C23_Witness ==
    /\ HasCompleted
    /\ \E c \in 1..Len(calls) :
         /\ calls[c].args # plan[calls[c].step + 1].args
         /\ Tokens(plan[calls[c].step + 1].args) # {}
         /\ \E m \in MessagesOfKind(FormulatedKind) :
              messages[m].agentPlan[calls[c].step + 1].args = plan[calls[c].step + 1].args

(***************************************************************************)
(* C25: a placeholder that references an earlier step which captured null  *)
(* is unresolved; vmix and finalAnswer steps always store null, so any     *)
(* later reference to such a step fails at resolution although the         *)
(* referenced index is smaller than the referencing one.                   *)
(***************************************************************************)
NullTools == {"vmix", "finalAnswer"}

C25_NullOutputUnresolved ==
    /\ \A i \in DOMAIN stepOutputs :
         plan[i + 1].tool \in NullTools => stepOutputs[i] = Null
    /\ \A k \in 1..Len(resolutions) :
         LET r == resolutions[k]
             nulls == {t \in Tokens(r.args) :
                         /\ t.number - 1 \in DOMAIN r.outs
                         /\ r.outs[t.number - 1] = Null}
             earlier == {t \in Tokens(r.args) :
                           /\ t.number - 1 \in 0..(r.step - 1)
                           /\ plan[t.number].tool \in NullTools}
         IN  /\ earlier \subseteq nulls
             /\ nulls # {} =>
                  /\ ~r.ok
                  /\ r.err.kind = "Could not resolve placeholder"
                  /\ r.err = PlaceholderError(Leftmost(Unresolvable(r.args, r.outs)).text,
                                              Leftmost(Unresolvable(r.args, r.outs)).number - 1)
                  /\ \A c \in 1..Len(calls) : calls[c].step # r.step
                  /\ LastMessageIsFailed
                  /\ messages[Len(messages)].err = r.err
                  /\ ~HasCompleted

\* step 1 referenced the output of a vmix step 0 that had run and stored null
C25_Witness ==
    \E k \in 1..Len(resolutions) :
      /\ resolutions[k].step = 1
      /\ plan[1].tool = "vmix"
      /\ resolutions[k].args = ArgReport
      /\ 0 \in DOMAIN resolutions[k].outs
      /\ resolutions[k].outs[0] = Null
      /\ ~resolutions[k].ok
      /\ LastMessageIsFailed

(***************************************************************************)
(* C26: a successful video step captures the location of the edited video  *)
(* as its output: after a video step at index i succeeds, stepOutputs[i]   *)
(* is a defined non-null value, and a later step's {{step_(i+1)_output}}   *)
(* placeholder resolves to it.                                             *)
(***************************************************************************)
C26_VideoOutputCaptured ==
    \A a \in 1..Len(returns) :
      LET i == returns[a].step
      IN  plan[i + 1].tool = "video" =>
            /\ i \in DOMAIN stepOutputs
            /\ stepOutputs[i] \notin {Undefined, Null}
            /\ \A k \in 1..Len(resolutions) :
                 LET r == resolutions[k]
                     T == Tokens(r.args)
                 IN  (r.step > i /\ T # {} /\ \A t \in T : t.number = i + 1) =>
                       /\ r.ok
                       /\ \A t \in T : Replacement(t, r.outs) = String(stepOutputs[i])

\* a video step 0 returned its result, yet the reference to it at step 1 was
\* reported as unresolvable
C26_Witness ==
    /\ Len(plan) = 2 /\ plan[1].tool = "video"
    /\ \E a \in 1..Len(returns) : returns[a].step = 0 /\ returns[a].text = <<"r">>
    /\ 0 \in DOMAIN stepOutputs /\ stepOutputs[0] = Undefined
    /\ \E k \in 1..Len(resolutions) :
         /\ resolutions[k].step = 1
         /\ resolutions[k].args = ArgReport
         /\ ~resolutions[k].ok
         /\ resolutions[k].err = PlaceholderError(Placeholder(<<"1">>), 0)
    /\ LastMessageIsFailed

(***************************************************************************)
(* C24: getChatHistory never returns a history whose first entry has role  *)
(* 'model': it drops every system_core message, maps fux to 'model' and    *)
(* user to 'user' keeping the order, and returns the empty list when no    *)
(* user message exists, otherwise the suffix that starts at the first user *)
(* message.                                                                *)
(***************************************************************************)
\* the positions of the transcript that hold a user message
UserPositions == {i \in 1..Len(messages) : messages[i].role = "user"}

\* the positions of the transcript that the returned history stands for:
\* those from the first user message on that are not system_core
KeptPositions ==
    IF UserPositions = {} THEN {}
    ELSE {i \in Least(UserPositions)..Len(messages) : messages[i].role # "system_core"}

\* the k-th smallest element of a set of numbers
Nth(S, k) == CHOOSE i \in S : Cardinality({j \in S : j <= i}) = k

C24_HistoryStartsWithUser ==
    contents.called =>
      LET h == contents.history
      IN  /\ h # <<>> => h[1].role = "user"
          /\ UserPositions = {} <=> h = <<>>
          /\ Len(h) = Cardinality(KeptPositions)
          /\ \A k \in 1..Len(h) :
               LET m == messages[Nth(KeptPositions, k)]
               IN  /\ h[k].role = IF m.role = "fux" THEN "model" ELSE "user"
                   /\ h[k].parts = <<[text |-> m.text]>>

\* a transcript fux, user, system_core became user alone
C24_Witness ==
    /\ contents.called
    /\ Len(messages) = 3
    /\ messages[1].role = "fux" /\ messages[2].role = "user"
    /\ messages[3].role = "system_core"
    /\ Len(contents.history) = 1
    /\ contents.history[1].role = "user"

(***************************************************************************)
(* C27: batch ingestion continues past failures: every URL is attempted in *)
(* order; the names of the modules ingested earlier in the batch are in    *)
(* the existing-names list passed for later URLs; exactly the successfully *)
(* ingested plugins are appended, once and in URL order, after the loop;   *)
(* and '[BATCH INGESTION PROTOCOL] Completed.' is always emitted, with     *)
(* isReplying reset to false.                                              *)
(***************************************************************************)
\* the requests of one kind, in the order they were made
RequestsTo(call) == SelectSeq(batch.requests, LAMBDA r : r.call = call)

\* the ingestRepository calls that resolved, in the order they did
Ingested == SelectSeq(batch.settled, LAMBDA x : x.call = "ingestRepository" /\ x.ok)

\* the names returned by ingestRepository for URLs before index i
IngestedBefore(i) == {Ingested[k].name : k \in {j \in 1..Len(Ingested) : Ingested[j].index < i}}

NamesOf(ps) == {ps[i].power_name : i \in 1..Len(ps)}

C27_BatchContinues ==
    LET fetches == RequestsTo("fetchRepoContents")
        ingests == RequestsTo("ingestRepository")
        good == batch.successfullyIngestedPlugins
    IN  /\ Len(fetches) <= Len(batch.urls)
        /\ \A k \in 1..Len(fetches) :
             fetches[k].index = k - 1 /\ fetches[k].url = batch.urls[k]
        /\ batch.pc \in {"fetching", "ingesting"} =>
             /\ Len(fetches) = batch.index + 1
             /\ isReplying
             /\ plugins = batch.plugins
             /\ MessagesOfKind(BatchCompletedKind) = {}
        /\ \A k \in 1..Len(ingests) :
             ingests[k].existingNames =
               NamesOf(batch.plugins) \cup IngestedBefore(ingests[k].index)
        /\ Len(good) = Len(Ingested)
        /\ \A k \in 1..Len(good) : good[k].power_name = Ingested[k].name
        /\ \A j, k \in 1..Len(Ingested) : j < k => Ingested[j].index < Ingested[k].index
        /\ batch.pc = "done" =>
             /\ Len(fetches) = Len(batch.urls)
             /\ plugins = batch.plugins \o good
             /\ Cardinality(MessagesOfKind(BatchCompletedKind)) = 1
             /\ messages[Len(messages)].kind = BatchCompletedKind
             /\ ~isReplying
             /\ currentTask = Null

\* the first URL failed, the second was ingested and appended
C27_Witness ==
    /\ batch.pc = "done"
    /\ Len(batch.urls) = 2
    /\ Len(batch.plugins) = 2
    /\ \E x \in 1..Len(batch.settled) : batch.settled[x].index = 0 /\ ~batch.settled[x].ok
    /\ Len(Ingested) = 1 /\ Ingested[1].index = 1
    /\ Len(plugins) = 3 /\ plugins[3].power_name = Ingested[1].name
    /\ ~isReplying

(***************************************************************************)
(* C28: after the initial load and any sequence of create, switch and      *)
(* delete operations the session list is non-empty, its ids are unique and *)
(* activeSessionId is the id of a session in the list; deleting the active *)
(* session makes the first remaining session active, and deleting the only *)
(* session leaves exactly one fresh session, which is active.              *)
(***************************************************************************)
UniqueIds == \A i, j \in 1..Len(sessions) : sessions[i].id = sessions[j].id => i = j

\* the list is non-empty and the active id is that of a listed session
ActiveListed ==
    mounted => (Len(sessions) > 0 /\ activeSessionId \in IdsOf(sessions))

\* what the last delete left of the list it found
Remaining ==
    SelectSeq(lastSessionOp.sessions, LAMBDA x : x.id # lastSessionOp.id)

C28_SessionInvariants ==
    mounted =>
      /\ Len(sessions) > 0
      /\ UniqueIds
      /\ activeSessionId \in IdsOf(sessions)
      /\ (lastSessionOp.op = "delete" /\ lastSessionOp.activeSessionId = lastSessionOp.id) =>
           IF Len(lastSessionOp.sessions) > 1
           THEN sessions = Remaining /\ activeSessionId = Remaining[1].id
           ELSE /\ Len(sessions) = 1
                /\ sessions[1].title = "New Session"
                /\ sessions[1].messages = <<Greeting>>
                /\ activeSessionId = sessions[1].id

\* two sessions were created without the clock moving: they share an id
C28_Witness ==
    /\ lastSessionOp.op = "create"
    /\ Len(sessions) >= 2
    /\ sessions[1].id = sessions[2].id
    /\ sessions[1].messages = <<Greeting>> /\ sessions[2].messages = <<Greeting>>

(***************************************************************************)
(* C29: isReplying is true whenever some handleSendMessage invocation is   *)
(* between its start and its finally block, also when a typed and a voice  *)
(* invocation overlap; it is false, and currentTask is null, once every    *)
(* invocation has finished.                                                *)
(***************************************************************************)
\* the invocations that have started and not reached their finally block
Running == {k \in 1..Len(sends) : sends[k].pc = "awaiting"}

C29_BusyWhileRunning ==
    /\ Running # {} => isReplying
    /\ Running = {} => (~isReplying /\ currentTask = Null)

\* a voice invocation started while a typed one was awaiting; one of them
\* finished and cleared the flag while the other is still awaiting
C29_Witness ==
    /\ Len(sends) = 2
    /\ sends[1].source = "typed" /\ sends[2].source = "voice"
    /\ Cardinality(Running) = 1
    /\ ~isReplying

\* when no invocation is running the flag is clear and the task line is null
ClearWhenDone == Running = {} => (~isReplying /\ currentTask = Null)

(***************************************************************************)
(* C30: twitchService.startStream sends no vMix command unless vMix is     *)
(* connected and a stream key is stored (otherwise it throws with nothing  *)
(* sent); when both hold it issues StreamingSetURL, StreamingSetKey and    *)
(* StartStreaming in exactly that order, StartStreaming is never sent      *)
(* unless both earlier commands succeeded, and a failure of a later        *)
(* command does not revert the earlier ones.                               *)
(***************************************************************************)
\* the requests of invocation r, in the order they were sent
SentBy(r) == SelectSeq(vmixLog, LAMBDA x : x.run = r)

\* the three commands of a stream start with the key of invocation r
StartSequence(r) ==
    <<[func |-> "StreamingSetURL", value |-> TWITCH_RTMP_URL],
      [func |-> "StreamingSetKey", value |-> String(stream.starts[r].streamKey)],
      [func |-> "StartStreaming", value |-> <<>>]>>

Ready(r) == stream.starts[r].connection # Null /\ stream.starts[r].streamKey # Null

StreamOrder ==
    /\ \A x \in 1..Len(vmixLog) : vmixLog[x].run \in 1..Len(stream.starts)
    /\ \A r \in 1..Len(stream.starts) :
         LET sent == SentBy(r)
         IN  /\ Len(sent) <= 3
             /\ ~Ready(r) =>
                  /\ sent = <<>>
                  /\ r = stream.run => stream.pc = "failed"
             /\ Ready(r) => Len(sent) >= 1
             /\ \A j \in 1..Len(sent) :
                  /\ sent[j].func = StartSequence(r)[j].func
                  /\ sent[j].value = StartSequence(r)[j].value
                  /\ j > 1 => sent[j - 1].settled = "sent"
             /\ (r = stream.run /\ stream.pc = "done") =>
                  /\ Len(sent) = 3
                  /\ \A j \in 1..3 : sent[j].settled = "sent"
             /\ (r = stream.run /\ stream.pc = "failed" /\ Len(sent) > 0
                   /\ sent[Len(sent)].settled = "failed") =>
                  \A j \in 1..(Len(sent) - 1) : sent[j].settled = "sent"

\* what was sent stays sent: the log only grows, and only the request in
\* flight changes, by being settled
LogKept ==
    /\ Len(vmixLog') >= Len(vmixLog)
    /\ \A x \in 1..Len(vmixLog) :
         /\ vmixLog'[x].func = vmixLog[x].func
         /\ vmixLog'[x].value = vmixLog[x].value
         /\ vmixLog'[x].run = vmixLog[x].run
         /\ vmixLog[x].settled # "pending" => vmixLog'[x].settled = vmixLog[x].settled

C30_StreamStartOrder == []StreamOrder /\ [][LogKept]_vars

\* the URL and the key were set and StartStreaming failed: the first two
\* stay as they were sent
C30_Witness ==
    /\ stream.run = 1 /\ stream.pc = "failed"
    /\ Len(vmixLog) = 3
    /\ vmixLog[1].settled = "sent" /\ vmixLog[2].settled = "sent"
    /\ vmixLog[2].func = "StreamingSetKey" /\ vmixLog[2].value = <<"k">>
    /\ vmixLog[3].func = "StartStreaming" /\ vmixLog[3].settled = "failed"

====
